---- MODULE Spec2Model ----
(***************************************************************************)
(* A model of rlt's benchmark runner (src/src/runner.rs), the pausable     *)
(* logical clock (src/src/clock.rs), the pause control (src/src/phase.rs)  *)
(* and the TUI pause key handler (src/src/collector/tui/input.rs).         *)
(*                                                                         *)
(* Every worker task of Runner::run is a process whose program counter     *)
(* walks through the statements of the spawned async block; the task that  *)
(* called run() is the process "main".  Real time is the variable now; the *)
(* logical clock is the code's (status, checkpoint, elapsed) triple.       *)
(***************************************************************************)
EXTENDS Integers, Sequences, FiniteSets, TLC

\* ------------------------------------------------------------------ bounds
MaxWorkers == 2
MaxWarmups == 1
MaxIters == 2
MaxDuration == 1
MaxTime == 2
MaxKeys == 2

\* A run without an iteration budget counts its iterations up to here.
MaxUnbounded == 2

\* The clock exercised on its own: real time runs to MaxClockTime, sleeps last up
\* to MaxSleep, and up to MaxRedundant calls that change nothing are counted.
MaxClockTime == 4
MaxSleep == 2
MaxRedundant == 2

\* The collector exercised on its own: it processes up to MaxResults results whose
\* items, bytes and latency range up to MaxItems, MaxBytes and MaxLatency.
MaxResults == 3
MaxItems == 1
MaxBytes == 1
MaxLatency == 2

\* The comparator exercised on its own: metric values range over 0 .. MaxValue
\* (a success ratio is a value over MaxValue), noise thresholds over the multiples
\* of ThresholdStep up to MaxThresholdSteps of them, and up to MaxSelected
\* regression metrics are selected.
MaxValue == 4
ThresholdStep == 25
MaxThresholdSteps == 4
MaxSelected == 2

\* The largest sequence number a run with an iteration budget can issue.
MaxSeq == MaxIters + MaxWorkers

VARIABLES
    opts,              \* BenchOpts: concurrency, iterations, duration, warmups, rate
    pc,                \* worker -> position in the spawned task ("absent": not spawned)
    stage,             \* worker -> "warmup" | "bench": which loop the worker is in
    info,              \* worker -> IterInfo {worker_seq, runner_seq}
    completed,         \* worker -> the local `completed` of a progress report
    waitGen,           \* worker -> barrier generation the worker waits to pass
    warmup_seq,        \* AtomicU64
    warmup_completed,  \* AtomicU64
    setup_completed,   \* AtomicUsize
    seq,               \* Runner.seq: AtomicU64
    barrier,           \* tokio Barrier state: arrived, generation
    phase,             \* the value held by the phase watch channel
    cancel,            \* CancellationToken: cancelled?
    cancelBy,          \* who triggered it: "none" | "deadline" | "external"
    paused,            \* PauseControl.paused
    notified,          \* worker -> its Notified future has received notify_waiters
    clock,             \* InnerClock: status, checkpoint, elapsed
    now,               \* real time (Instant::now())
    limiter,           \* rate limiter state: the theoretical arrival time, if any
    mainPc,            \* position of the task running Runner::run
    mainResult,        \* what run() returned
    sleep,             \* Clock::sleep of the deadline: wake_time and the armed timer
    finished,          \* JoinSet: finished tasks not yet joined, in completion order
    joined,            \* JoinSet: number of tasks already returned by join_next
    collector,         \* cli::Collector: "Tui" | "Silent"
    tui,               \* TUI key handler: pc, is_bench_phase, run_state, keys handled
    setupOk,           \* workers whose setup returned Ok
    calls,             \* stage -> number of bench calls started
    seqCalls,          \* runner_seq -> number of bench-phase calls that carried it
    sent,              \* stage -> number of results sent on the result channel
    teardownErr,       \* workers whose teardown returned Err
    ran,               \* real time the clock has spent in the Running status
    lastRead,          \* the latest reading of Clock::elapsed by an observer
    redundant,         \* pause() calls on a paused clock and resume() calls on a running one
    sleeper,           \* a caller of Clock::sleep: pc, the duration asked, elapsed() at the call
    stats,             \* IterStats of a collector: overall, by_status
    status_dist,       \* a collector's status_dist: status -> count
    error_dist,        \* a collector's error_dist: error text -> count
    colPc,             \* the collector task: "recv" | "failed" | "returned"
    chan,              \* results queued in the result channel
    res_rx,            \* the result receiver: "open" | "dropped"
    phase_rx,          \* the phase receiver: "open" | "dropped"
    report,            \* the BenchReport ReportCollector::run returned, if any
    auto_quit,         \* TuiCollector.auto_quit: !cli.quit_manually
    cmpIn,             \* the comparator's arguments
    cmpOut,            \* what the comparator returned, if it was called
    cli,               \* cli::run: its arguments, its position, its locals and what it returned
    save,              \* baseline::save: its position, the two files, what it returned
    recent             \* RecentStatsWindow: its fields and what stats_for_secs returned

wloc == <<stage, info, completed, waitGen>>
counters == <<warmup_seq, warmup_completed, setup_completed, seq>>
ctl == <<cancel, cancelBy, paused, notified>>
time == <<clock, now, limiter>>
mainV == <<mainPc, mainResult, sleep, finished, joined>>
ghost == <<setupOk, calls, seqCalls, sent, teardownErr>>
unit == <<ran, lastRead, redundant, sleeper, stats, status_dist, error_dist, colPc>>
cmpVars == <<cmpIn, cmpOut>>
lib == <<save, recent>>
sys == <<chan, res_rx, phase_rx, report, auto_quit, cmpVars, cli, lib>>
cfg == <<opts, collector, unit, sys>>
vars == <<cfg, pc, wloc, counters, barrier, phase, ctl, time, mainV, tui, ghost>>

\* ------------------------------------------------------------------ options
\* An Option<T> is the empty set (None) or a singleton (Some).
Workers == 0 .. (opts.concurrency - 1)
AllIds == 0 .. (MaxWorkers - 1)

IsSome(o) == o # {}
Unwrap(o) == CHOOSE x \in o : TRUE

BenchOptsSet ==
    [concurrency : 1 .. MaxWorkers,
     iterations  : {{}} \cup {{n} : n \in 0 .. MaxIters},
     duration    : {{}} \cup {{d} : d \in 0 .. MaxDuration},
     warmups     : 0 .. MaxWarmups,
     rate        : {{}, {1}}]

\* u64 counters are modelled up to a cap where they saturate.  With an iteration
\* budget N the bench counter reaches at most N + concurrency, so the cap is never
\* met; without a budget the run is unbounded and is counted up to MaxUnbounded.
\* The warm-up counter reaches at most warmups + concurrency.
SeqCap ==
    IF IsSome(opts.iterations)
    THEN Unwrap(opts.iterations) + opts.concurrency
    ELSE MaxUnbounded

WarmupCap == opts.warmups + opts.concurrency

CapOf(s) == IF s = "warmup" THEN WarmupCap ELSE SeqCap

Sat(x, cap) == IF x < cap THEN x + 1 ELSE x

\* ------------------------------------------------------------------ clock
NewPaused == [status |-> "Paused", checkpoint |-> 0, elapsed |-> 0]

ClockElapsedOf(c, t) ==
    IF c.status = "Paused" THEN c.elapsed ELSE c.elapsed + (t - c.checkpoint)

ClockElapsed == ClockElapsedOf(clock, now)

ClockResumeAlways(c, t) == [c EXCEPT !.status = "Running", !.checkpoint = t]

ClockResume(c, t) ==
    IF c.status = "Paused"
    THEN [c EXCEPT !.status = "Running", !.checkpoint = t]
    ELSE c

ClockPauseOverwrites(c, t) ==
    IF c.status = "Running"
    THEN [status |-> "Paused", checkpoint |-> 0, elapsed |-> t - c.checkpoint]
    ELSE c

ClockPause(c, t) ==
    IF c.status = "Running"
    THEN [status |-> "Paused", checkpoint |-> 0, elapsed |-> c.elapsed + (t - c.checkpoint)]
    ELSE c

\* ------------------------------------------------------------------ rate limiter
\* Quota::per_second(rate).allow_burst(1) read on the logical clock: one permit
\* per ReplenishInterval of logical time, the first one at once.
ReplenishInterval == 1

LimiterNow == ClockElapsed

LimiterTat == IF limiter = {} THEN LimiterNow + ReplenishInterval ELSE Unwrap(limiter)

LimiterAlwaysReady == TRUE

LimiterReady == LimiterNow >= LimiterTat - ReplenishInterval

LimiterNext ==
    {(IF LimiterTat > LimiterNow THEN LimiterTat ELSE LimiterNow) + ReplenishInterval}

\* ------------------------------------------------------------------ phase values
Pending == [kind |-> "Pending", completed |-> 0, total |-> 0]
SetupPhase(c, t) == [kind |-> "Setup", completed |-> c, total |-> t]
WarmupPhase(c, t) == [kind |-> "Warmup", completed |-> c, total |-> t]
BenchPhase == [kind |-> "Bench", completed |-> 0, total |-> 0]

\* ------------------------------------------------------------------ statistics
\* Counter::default(); IterStats::new(): by_status is an empty map
ZeroCounter == [iters |-> 0, items |-> 0, bytes |-> 0, latency_sum |-> 0]

NewIterStats == [overall |-> ZeroCounter, by_status |-> << >>]

\* Counter::record
CounterRecord(c, r) ==
    [iters |-> c.iters + 1,
     items |-> c.items + r.items,
     bytes |-> c.bytes + r.bytes,
     latency_sum |-> c.latency_sum + r.duration]

\* map.entry(k).or_default(): the map with k present
OrDefault(m, k, d) == [x \in DOMAIN m \cup {k} |-> IF x \in DOMAIN m THEN m[x] ELSE d]

\* IterStats::record: overall.record(report); by_status.entry(status).or_default().record(report)
IterStatsRecordByStatusOnly(st, r) ==
    [st EXCEPT !.by_status =
        [OrDefault(st.by_status, r.status, ZeroCounter) EXCEPT ![r.status] = CounterRecord(@, r)]]

IterStatsRecord(st, r) ==
    [overall |-> CounterRecord(st.overall, r),
     by_status |->
        [OrDefault(st.by_status, r.status, ZeroCounter) EXCEPT ![r.status] = CounterRecord(@, r)]]

\* *map.entry(k).or_default() += 1
Bump(m, k) == [OrDefault(m, k, 0) EXCEPT ![k] = @ + 1]

\* LatencyHistogram::record: Err(LatencyTooLarge) when the latency does not fit
HistMax == 1

HistRecordOk(d) == d <= HistMax

\* ------------------------------------------------------------------ initial state
\* The runs explored.  Under the silent collector: every option combination for
\* a single worker; for several workers every run with an iteration budget and
\* no deadline, and the shortest runs with a deadline.  Under the TUI collector
\* (pause key presses): a single worker, with no budget or the smallest one.
AllRuns == [opts : BenchOptsSet, collector : {"Tui", "Silent"}]

Shortest(o) == o.iterations = {1} /\ o.warmups = 0 /\ o.rate = {}

SilentRun(o) ==
    \/ o.concurrency = 1
    \/ o.iterations # {} /\ o.duration = {}
    \/ o.duration # {} /\ Shortest(o)

TuiRun(o) ==
    /\ o.concurrency = 1
    /\ o.iterations \subseteq {1}
    /\ o.duration # {0}

Runs ==
    {r \in AllRuns : IF r.collector = "Silent" THEN SilentRun(r.opts) ELSE TuiRun(r.opts)}

InitRun(runs) ==
    /\ \E r \in runs : opts = r.opts /\ collector = r.collector
    /\ pc = [w \in AllIds |-> IF w \in Workers THEN "setup" ELSE "absent"]
    /\ stage = [w \in AllIds |-> "warmup"]
    /\ info = [w \in AllIds |-> [worker_seq |-> 0, runner_seq |-> 0]]
    /\ completed = [w \in AllIds |-> 0]
    /\ waitGen = [w \in AllIds |-> 0]
    /\ warmup_seq = 0
    /\ warmup_completed = 0
    /\ setup_completed = 0
    /\ seq = 0
    /\ barrier = [arrived |-> 0, generation |-> 0]
    /\ phase = Pending
    /\ cancel = FALSE
    /\ cancelBy = "none"
    /\ paused = FALSE
    /\ notified = [w \in AllIds |-> FALSE]
    /\ clock = NewPaused
    /\ now = 0
    /\ limiter = {}
    /\ mainPc = "start"
    /\ mainResult = [kind |-> "none", worker_id |-> 0]
    /\ sleep = [wake_time |-> 0, timer |-> 0]
    /\ finished = << >>
    /\ joined = 0
    /\ tui = [pc |-> "idle", is_bench_phase |-> FALSE, run_state |-> "Running", keys |-> 0]
    /\ setupOk = {}
    /\ calls = [s \in {"warmup", "bench"} |-> 0]
    /\ seqCalls = [n \in 0 .. MaxSeq |-> 0]
    /\ sent = [s \in {"warmup", "bench"} |-> 0]
    /\ teardownErr = {}
    /\ ran = 0
    /\ lastRead = 0
    /\ redundant = 0
    /\ sleeper = [pc |-> "idle", duration |-> 0, called_at |-> 0]
    /\ stats = NewIterStats
    /\ status_dist = << >>
    /\ error_dist = << >>
    /\ colPc = "recv"
    /\ chan = 0
    /\ res_rx = "open"
    /\ phase_rx = "open"
    /\ report = {}
    /\ cmpOut = {}

NoComparison == [fn |-> "none"]

\* cli::run's frame: the BenchCli fields it reads (baseline, baseline_file,
\* save_baseline, fail_on_regression), the baseline file as it is on disk, its locals
\* (baseline, cmp), what it has written, and its return value
CliStart(baseline, baseline_file, disk, save_baseline, fail_on_regression) ==
    [pc                 |-> "load",
     baseline_name      |-> baseline,
     baseline_file      |-> baseline_file,
     disk               |-> disk,
     save_baseline      |-> save_baseline,
     fail_on_regression |-> fail_on_regression,
     baseline           |-> {},
     cmp                |-> {},
     emitted            |-> FALSE,
     saved              |-> FALSE,
     result             |-> "none"]

\* the runner and the collector on their own: no cli::run around them
NoCli == [CliStart(FALSE, FALSE, {}, FALSE, FALSE) EXCEPT !.pc = "off"]

\* no call of baseline::save in progress
NoSave == [pc |-> "off"]

NoWindow == [pc |-> "off"]

LibIdle == save = NoSave /\ recent = NoWindow

Init == InitRun(Runs) /\ auto_quit = TRUE /\ cmpIn = NoComparison /\ cli = NoCli /\ LibIdle

\* ------------------------------------------------------------------ workers
Goto(w, l) == pc' = [pc EXCEPT ![w] = l]

\* Where `break` leaves the worker: behind the loop it is in.
AfterLoop(w) == IF stage[w] = "warmup" THEN "barrier2" ELSE "teardown"

\* Where the loop body starts once the sequence number is taken.
LoopBody == IF IsSome(opts.rate) THEN "rate" ELSE "select"

\* suite.setup(worker).await.map_err(WorkerSetup)?
SetupOk(w) ==
    /\ pc[w] = "setup"
    /\ Goto(w, "setup_count")
    /\ setupOk' = setupOk \cup {w}
    /\ UNCHANGED <<cfg, wloc, counters, barrier, phase, ctl, time, mainV, tui,
                   calls, seqCalls, sent, teardownErr>>

SetupErr(w) ==
    /\ pc[w] = "setup"
    /\ Goto(w, "failed")
    /\ finished' = Append(finished, w)
    /\ UNCHANGED <<cfg, wloc, counters, barrier, phase, ctl, time, tui, ghost,
                   mainPc, mainResult, sleep, joined>>

\* let completed = setup_completed.fetch_add(1) + 1
SetupCount(w) ==
    /\ pc[w] = "setup_count"
    /\ completed' = [completed EXCEPT ![w] = setup_completed + 1]
    /\ setup_completed' = setup_completed + 1
    /\ Goto(w, "setup_publish")
    /\ UNCHANGED <<cfg, stage, info, waitGen, warmup_seq, warmup_completed, seq,
                   barrier, phase, ctl, time, mainV, tui, ghost>>

\* phase_tx.send_replace(Setup { completed, total })
SetupPublish(w) ==
    /\ pc[w] = "setup_publish"
    /\ phase' = SetupPhase(completed[w], opts.concurrency)
    /\ Goto(w, "barrier1")
    /\ UNCHANGED <<cfg, wloc, counters, barrier, ctl, time, mainV, tui, ghost>>

\* Barrier::wait: the last of `concurrency` arrivals resets the count, starts a
\* new generation and is the leader; the others wait for the generation to change.
IsLastArrivalOfOne == barrier.arrived + 1 >= 1

IsLastArrival == barrier.arrived + 1 = opts.concurrency

\* a waiter is released once the generation it arrived in is over
ReleasedAtOnce(w) == TRUE

Released(w) == barrier.generation # waitGen[w]

BarrierArrive(w, at, leaderTo) ==
    /\ pc[w] = at
    /\ IF IsLastArrival
       THEN /\ barrier' = [arrived |-> 0, generation |-> barrier.generation + 1]
            /\ Goto(w, leaderTo)
            /\ UNCHANGED waitGen
       ELSE /\ barrier' = [barrier EXCEPT !.arrived = barrier.arrived + 1]
            /\ waitGen' = [waitGen EXCEPT ![w] = barrier.generation]
            /\ Goto(w, at \o "_wait")
    /\ UNCHANGED <<cfg, stage, info, completed, counters, phase, ctl, time, mainV,
                   tui, ghost>>

BarrierRelease(w, at, to) ==
    /\ pc[w] = at \o "_wait"
    /\ Released(w)
    /\ Goto(w, to)
    /\ UNCHANGED <<cfg, wloc, counters, barrier, phase, ctl, time, mainV, tui, ghost>>

SetupBarrierArrive(w) == BarrierArrive(w, "barrier1", "fetch")
SetupBarrierRelease(w) == BarrierRelease(w, "barrier1", "fetch")

\* if info.runner_seq >= warmup_iters { break }
WarmupExhaustedOffByOne(n) == n > opts.warmups

WarmupExhausted(n) == n >= opts.warmups

\* info.runner_seq = warmup_seq.fetch_add(1); if info.runner_seq >= warmup_iters { break }
WarmupFetch(w) ==
    /\ pc[w] = "fetch"
    /\ stage[w] = "warmup"
    /\ info' = [info EXCEPT ![w].runner_seq = warmup_seq]
    /\ warmup_seq' = warmup_seq + 1
    /\ Goto(w, IF WarmupExhausted(warmup_seq) THEN "barrier2" ELSE LoopBody)
    /\ UNCHANGED <<cfg, stage, completed, waitGen, warmup_completed, setup_completed,
                   seq, barrier, phase, ctl, time, mainV, tui, ghost>>

\* select! { biased; cancel.cancelled() => break, buckets.until_ready() => () }
RateCancelled(w) ==
    /\ pc[w] = "rate"
    /\ cancel
    /\ Goto(w, AfterLoop(w))
    /\ UNCHANGED <<cfg, wloc, counters, barrier, phase, ctl, time, mainV, tui, ghost>>

RatePermit(w) ==
    /\ pc[w] = "rate"
    /\ ~cancel
    /\ LimiterReady
    /\ limiter' = LimiterNext
    /\ Goto(w, "select")
    /\ UNCHANGED <<cfg, wloc, counters, barrier, phase, ctl, clock, now, mainV, tui,
                   ghost>>

\* select! { biased; cancel.cancelled() => break, b.iteration(..) => .. }: first poll
SelectEnter(w) ==
    /\ pc[w] = "select"
    /\ Goto(w, IF cancel THEN AfterLoop(w) ELSE "pause_fast")
    /\ UNCHANGED <<cfg, wloc, counters, barrier, phase, ctl, time, mainV, tui, ghost>>

\* suite.bench(state, info) is called
BeginBench(w) ==
    /\ Goto(w, "bench")
    /\ calls' = [calls EXCEPT ![stage[w]] = Sat(@, CapOf(stage[w]))]
    /\ seqCalls' = IF stage[w] = "bench"
                   THEN [seqCalls EXCEPT ![info[w].runner_seq] = IF @ < 2 THEN @ + 1 ELSE @]
                   ELSE seqCalls

\* The order of the steps of wait_if_paused's loop: `notified()` is created, then
\* the flag is read again, then the future is awaited.
CheckFirst(step) ==
    CASE step = "loop" -> "pause_recheck"
      [] step = "pause_recheck" -> "pause_sub"
      [] step = "pause_sub" -> "pause_await"

SubscribeFirst(step) ==
    CASE step = "loop" -> "pause_sub"
      [] step = "pause_sub" -> "pause_recheck"
      [] step = "pause_recheck" -> "pause_await"

\* wait_if_paused, fast path: if !self.is_paused() { return }
PauseFast(w) ==
    /\ pc[w] = "pause_fast"
    /\ IF paused
       THEN Goto(w, SubscribeFirst("loop")) /\ UNCHANGED <<calls, seqCalls>>
       ELSE BeginBench(w)
    /\ UNCHANGED <<cfg, wloc, counters, barrier, phase, ctl, time, mainV, tui,
                   setupOk, sent, teardownErr>>

\* let notified = self.resume_notify.notified()
PauseSubscribe(w) ==
    /\ pc[w] = "pause_sub"
    /\ notified' = [notified EXCEPT ![w] = FALSE]
    /\ Goto(w, SubscribeFirst("pause_sub"))
    /\ UNCHANGED <<cfg, wloc, counters, barrier, phase, cancel, cancelBy, paused,
                   time, mainV, tui, ghost>>

\* self.is_paused() as read after subscribing
RecheckSkipped == FALSE

StillPaused == paused

\* if !self.is_paused() { return }
PauseRecheck(w) ==
    /\ pc[w] = "pause_recheck"
    /\ IF StillPaused
       THEN Goto(w, SubscribeFirst("pause_recheck")) /\ UNCHANGED <<calls, seqCalls>>
       ELSE BeginBench(w)
    /\ UNCHANGED <<cfg, wloc, counters, barrier, phase, ctl, time, mainV, tui,
                   setupOk, sent, teardownErr>>

\* notified.await completes; the select polls cancel first when it is woken
PauseAwait(w) ==
    /\ pc[w] = "pause_await"
    /\ notified[w]
    /\ ~cancel
    /\ Goto(w, SubscribeFirst("loop"))
    /\ UNCHANGED <<cfg, wloc, counters, barrier, phase, ctl, time, mainV, tui, ghost>>

\* the iteration future is suspended in the pause wait or inside bench; both sit
\* in the select arm that cancellation races
SuspendedInBenchOnly == {"bench"}

SuspendedInIteration == {"pause_await", "bench"}

\* the select's cancel branch wins while the iteration is suspended
IterationCancelled(w) ==
    /\ pc[w] \in SuspendedInIteration
    /\ cancel
    /\ Goto(w, AfterLoop(w))
    /\ UNCHANGED <<cfg, wloc, counters, barrier, phase, ctl, time, mainV, tui, ghost>>

\* _ = b.iteration(&mut state, &info) => { .. }: the warm-up result is dropped,
\* nothing is sent on the result channel
WarmupResultForwarded(s) == [s EXCEPT !["warmup"] = Sat(@, WarmupCap)]

WarmupResultDropped(s) == s

\* warmup: the result is dropped; worker_seq += 1; warmup_completed.fetch_add(1) + 1
WarmupIterDone(w) ==
    /\ pc[w] = "bench"
    /\ stage[w] = "warmup"
    /\ info' = [info EXCEPT ![w].worker_seq = Sat(@, WarmupCap)]
    /\ completed' = [completed EXCEPT ![w] = warmup_completed + 1]
    /\ warmup_completed' = warmup_completed + 1
    /\ sent' = WarmupResultDropped(sent)
    /\ Goto(w, "warmup_publish")
    /\ UNCHANGED <<cfg, stage, waitGen, warmup_seq, setup_completed, seq, barrier,
                   phase, ctl, time, mainV, tui, setupOk, calls, seqCalls,
                   teardownErr>>

\* phase_tx.send_replace(Warmup { completed, total })
WarmupPublish(w) ==
    /\ pc[w] = "warmup_publish"
    /\ phase' = WarmupPhase(completed[w], opts.warmups)
    /\ Goto(w, "fetch")
    /\ UNCHANGED <<cfg, wloc, counters, barrier, ctl, time, mainV, tui, ghost>>

WarmupBarrierArrive(w) == BarrierArrive(w, "barrier2", "leader_publish")

\* is_leader() is false for every arrival but the last: no publish, no clock
EveryoneLeads == "leader_publish"

FollowerNext == "fetch"

\* info.worker_seq = 0 before the bench loop, whatever the warm-up left in it
WorkerSeqCarriedOver(n) == n

BenchWorkerSeq(n) == 0

\* a worker that is not the leader: info.worker_seq = 0 and on to the bench loop
WarmupBarrierRelease(w) ==
    /\ pc[w] = "barrier2_wait"
    /\ Released(w)
    /\ stage' = [stage EXCEPT ![w] = "bench"]
    /\ info' = [info EXCEPT ![w].worker_seq = BenchWorkerSeq(@)]
    /\ Goto(w, FollowerNext)
    /\ UNCHANGED <<cfg, completed, waitGen, counters, barrier, phase, ctl, time,
                   mainV, tui, ghost>>

\* the leader: phase_tx.send_replace(BenchPhase::Bench)
LeaderPublish(w) ==
    /\ pc[w] = "leader_publish"
    /\ phase' = BenchPhase
    /\ Goto(w, "leader_check")
    /\ UNCHANGED <<cfg, wloc, counters, barrier, ctl, time, mainV, tui, ghost>>

\* b.pause.is_paused() as the leader reads it
LeaderIgnoresPause == FALSE

LeaderSeesPause == paused

\* if !b.pause.is_paused() { ... }; otherwise info.worker_seq = 0 and on
LeaderCheck(w) ==
    /\ pc[w] = "leader_check"
    /\ IF LeaderSeesPause
       THEN /\ stage' = [stage EXCEPT ![w] = "bench"]
            /\ info' = [info EXCEPT ![w].worker_seq = BenchWorkerSeq(@)]
            /\ Goto(w, "fetch")
       ELSE /\ Goto(w, "leader_resume")
            /\ UNCHANGED <<stage, info>>
    /\ UNCHANGED <<cfg, completed, waitGen, counters, barrier, phase, ctl, time,
                   mainV, tui, ghost>>

\* b.opts.clock.resume(); info.worker_seq = 0
LeaderResume(w) ==
    /\ pc[w] = "leader_resume"
    /\ clock' = ClockResume(clock, now)
    /\ stage' = [stage EXCEPT ![w] = "bench"]
    /\ info' = [info EXCEPT ![w].worker_seq = BenchWorkerSeq(@)]
    /\ Goto(w, "fetch")
    /\ UNCHANGED <<cfg, completed, waitGen, counters, barrier, phase, ctl, now,
                   limiter, mainV, tui, ghost>>

\* b.seq.fetch_add(1): the value the counter holds afterwards
SeqNotAdvanced(n) == n

SeqAfterFetch(n) == Sat(n, SeqCap)

\* if let Some(iterations) = iters && info.runner_seq >= iterations { break }
BudgetExhausted(n) == IsSome(opts.iterations) /\ n >= Unwrap(opts.iterations)

\* info.runner_seq = b.seq.fetch_add(1); if let Some(n) = iters && runner_seq >= n { break }
BenchFetch(w) ==
    /\ pc[w] = "fetch"
    /\ stage[w] = "bench"
    /\ info' = [info EXCEPT ![w].runner_seq = seq]
    /\ seq' = SeqAfterFetch(seq)
    /\ Goto(w, IF BudgetExhausted(seq) THEN "teardown" ELSE LoopBody)
    /\ UNCHANGED <<cfg, stage, completed, waitGen, warmup_seq, warmup_completed,
                   setup_completed, barrier, phase, ctl, time, mainV, tui, ghost>>

\* UnboundedSender::send: Err(SendError) iff the receiver is gone, else the result
\* is queued; it never waits
SendOk == res_rx = "open"

\* let _ = b.res_tx.send(res): the loop goes on whatever send returned
SendFailureBreaks(ok) == IF ok THEN "fetch" ELSE "teardown"

AfterSend(ok) == "fetch"

\* bench: let _ = b.res_tx.send(res); info.worker_seq += 1
BenchIterDone(w) ==
    /\ pc[w] = "bench"
    /\ stage[w] = "bench"
    /\ IF SendOk
       THEN /\ chan' = IF sent["bench"] < SeqCap THEN chan + 1 ELSE chan
            /\ sent' = [sent EXCEPT !["bench"] = Sat(@, SeqCap)]
       ELSE UNCHANGED <<chan, sent>>
    /\ info' = [info EXCEPT ![w].worker_seq = Sat(@, SeqCap)]
    /\ Goto(w, AfterSend(SendOk))
    /\ UNCHANGED <<opts, collector, unit, res_rx, phase_rx, report, auto_quit, cmpVars, cli, lib,
                   stage,
                   completed, waitGen, counters, barrier, phase, ctl, time, mainV, tui,
                   setupOk, calls, seqCalls, teardownErr>>

\* if let Err(_e) = b.suite.teardown(state, info).await { log }; Ok(()): the task
\* ends the same way whatever teardown returned
TeardownPropagated(ok) == IF ok THEN "done" ELSE "failed"

TeardownExit(ok) == "done"

Teardown(w) ==
    /\ pc[w] = "teardown"
    /\ \E ok \in BOOLEAN :
          /\ Goto(w, TeardownExit(ok))
          /\ teardownErr' = IF ok THEN teardownErr ELSE teardownErr \cup {w}
    /\ finished' = Append(finished, w)
    /\ UNCHANGED <<cfg, wloc, counters, barrier, phase, ctl, time, tui, setupOk, calls,
                   seqCalls, sent, mainPc, mainResult, sleep, joined>>

Worker(w) ==
    \/ SetupOk(w)
    \/ SetupErr(w)
    \/ SetupCount(w)
    \/ SetupPublish(w)
    \/ SetupBarrierArrive(w)
    \/ SetupBarrierRelease(w)
    \/ WarmupFetch(w)
    \/ RateCancelled(w)
    \/ RatePermit(w)
    \/ SelectEnter(w)
    \/ PauseFast(w)
    \/ PauseSubscribe(w)
    \/ PauseRecheck(w)
    \/ PauseAwait(w)
    \/ IterationCancelled(w)
    \/ WarmupIterDone(w)
    \/ WarmupPublish(w)
    \/ WarmupBarrierArrive(w)
    \/ WarmupBarrierRelease(w)
    \/ LeaderPublish(w)
    \/ LeaderCheck(w)
    \/ LeaderResume(w)
    \/ BenchFetch(w)
    \/ BenchIterDone(w)
    \/ Teardown(w)

\* ------------------------------------------------------------------ the task in run()
Ok == [kind |-> "Ok", worker_id |-> 0]
WorkerSetupError(w) == [kind |-> "WorkerSetup", worker_id |-> w]

TaskFailed(w) == pc[w] = "failed"
TaskFinished(w) == pc[w] \in {"done", "failed"}

\* Dropping the JoinSet aborts every task that has not finished.
AbortAll ==
    [w \in AllIds |-> IF w \in Workers /\ ~TaskFinished(w) THEN "aborted" ELSE pc[w]]

\* Clock::sleep: let wake_time = self.elapsed() + duration; time::sleep(duration)
WakeTimeAbsolute(d) == d

WakeTime(d) == ClockElapsed + d

SleepArm(d) == [wake_time |-> WakeTime(d), timer |-> now + d]

\* duration = wake_time - elapsed; time::sleep(duration)
SleepRearm == [sleep EXCEPT !.timer = now + (sleep.wake_time - ClockElapsed)]

\* if let Some(t) = duration { select! { .. } }: the first poll of the select.
MainStart ==
    /\ mainPc = "start"
    /\ IF IsSome(opts.duration) /\ ~cancel
       THEN /\ sleep' = SleepArm(Unwrap(opts.duration))
            /\ mainPc' = "select"
       ELSE /\ mainPc' = "join"
            /\ UNCHANGED sleep
    /\ UNCHANGED <<cfg, pc, wloc, counters, barrier, phase, ctl, time, mainResult,
                   finished, joined, tui, ghost>>

\* _ = self.cancel.cancelled() => ()
MainSelectCancelled ==
    /\ mainPc = "select"
    /\ cancel
    /\ mainPc' = "join"
    /\ UNCHANGED <<cfg, pc, wloc, counters, barrier, phase, ctl, time, mainResult,
                   sleep, finished, joined, tui, ghost>>

\* Clock::sleep's loop after time::sleep returned: break once elapsed >= wake_time,
\* else sleep again for wake_time - elapsed.  _ = clock.sleep(t) => self.cancel.cancel()
SleepDueOnWallClock == TRUE

SleepDue == ClockElapsed >= sleep.wake_time

MainSleepWake ==
    /\ mainPc = "select"
    /\ ~cancel
    /\ now >= sleep.timer
    /\ IF SleepDue
       THEN /\ cancel' = TRUE
            /\ cancelBy' = "deadline"
            /\ mainPc' = "join"
            /\ UNCHANGED sleep
       ELSE /\ sleep' = SleepRearm
            /\ UNCHANGED <<cancel, cancelBy, mainPc>>
    /\ UNCHANGED <<cfg, pc, wloc, counters, barrier, phase, paused, notified, time,
                   mainResult, finished, joined, tui, ghost>>

\* _ = join_all(&mut set) => (): one join_next of the join_all inside the select;
\* whatever join_all returns, Ok or Err, the arm drops it.
SelectJoinTo(failed) == IF failed THEN "join" ELSE "select"

MainSelectJoin ==
    /\ mainPc = "select"
    /\ ~cancel
    /\ now < sleep.timer
    /\ IF joined = opts.concurrency
       THEN /\ mainPc' = "join"
            /\ UNCHANGED <<finished, joined>>
       ELSE /\ finished # << >>
            /\ finished' = Tail(finished)
            /\ joined' = joined + 1
            /\ mainPc' = SelectJoinTo(TaskFailed(Head(finished)))
    /\ UNCHANGED <<cfg, pc, wloc, counters, barrier, phase, ctl, time, mainResult,
                   sleep, tui, ghost>>

\* join_all(&mut set).await: while let Some(res) = set.join_next().await { res??; } Ok(())
JoinResult(w) == IF TaskFailed(w) THEN WorkerSetupError(w) ELSE Ok

MainJoin ==
    /\ mainPc = "join"
    /\ IF joined = opts.concurrency
       THEN /\ mainPc' = "returned"
            /\ mainResult' = Ok
            /\ UNCHANGED <<pc, finished, joined>>
       ELSE /\ finished # << >>
            /\ finished' = Tail(finished)
            /\ joined' = joined + 1
            /\ IF JoinResult(Head(finished)) # Ok
               THEN /\ mainPc' = "returned"
                    /\ mainResult' = JoinResult(Head(finished))
                    /\ pc' = AbortAll
               ELSE UNCHANGED <<mainPc, mainResult, pc>>
    /\ UNCHANGED <<cfg, wloc, counters, barrier, phase, ctl, time, sleep, tui, ghost>>

Main == MainStart \/ MainSelectCancelled \/ MainSleepWake \/ MainSelectJoin \/ MainJoin

\* ------------------------------------------------------------------ pause control
\* PauseControl::pause: paused.store(true)
PausePause == paused' = TRUE

\* PauseControl::resume: paused.store(false), then resume_notify.notify_waiters()
PauseResumeStore == paused' = FALSE
NotifyWaiters == notified' = [w \in AllIds |-> w \in Workers]

\* ------------------------------------------------------------------ TUI pause key
\* (Char('p') | Pause, _): let is_bench_phase = matches!(&*phase_rx.borrow(), Bench)
IsBenchPhase == phase.kind = "Bench"

\* match self.state.run_state { Paused => .., Running => .., Finished => {} }
KeyHandledAlways(rs) == "clock"

KeyHandledFrom(rs) == IF rs = "Finished" THEN "idle" ELSE "clock"

TuiKey ==
    /\ collector = "Tui"
    /\ tui.pc = "idle"
    /\ tui.keys < MaxKeys
    /\ tui' = [tui EXCEPT !.pc = KeyHandledFrom(tui.run_state),
                          !.is_bench_phase = IsBenchPhase, !.keys = tui.keys + 1]
    /\ UNCHANGED <<cfg, pc, wloc, counters, barrier, phase, ctl, time, mainV, ghost>>

\* the clock is touched only in the bench phase
TuiClockAlways == TRUE

TuiClockGate == tui.is_bench_phase

\* if is_bench_phase { clock.resume() } / if is_bench_phase { clock.pause() }
TuiClock ==
    /\ tui.pc = "clock"
    /\ clock' = IF TuiClockGate
                THEN IF tui.run_state = "Paused"
                     THEN ClockResume(clock, now)
                     ELSE ClockPause(clock, now)
                ELSE clock
    /\ tui' = [tui EXCEPT !.pc = "flag"]
    /\ UNCHANGED <<cfg, pc, wloc, counters, barrier, phase, ctl, now, limiter, mainV,
                   ghost>>

\* run_state = Running; pause.resume()  /  run_state = Paused; pause.pause()
TuiFlag ==
    /\ tui.pc = "flag"
    /\ IF tui.run_state = "Paused"
       THEN /\ PauseResumeStore
            /\ tui' = [tui EXCEPT !.pc = "notify", !.run_state = "Running"]
       ELSE /\ PausePause
            /\ tui' = [tui EXCEPT !.pc = "idle", !.run_state = "Paused"]
    /\ UNCHANGED <<cfg, pc, wloc, counters, barrier, phase, cancel, cancelBy, notified,
                   time, mainV, ghost>>

TuiNotify ==
    /\ tui.pc = "notify"
    /\ NotifyWaiters
    /\ tui' = [tui EXCEPT !.pc = "idle"]
    /\ UNCHANGED <<cfg, pc, wloc, counters, barrier, phase, cancel, cancelBy, paused,
                   time, mainV, ghost>>

\* (Char('q'), _) | (Char('c'), CONTROL) => self.cancel.cancel(); also ctrl_c in the
\* silent collector
ExternalCancel ==
    /\ ~cancel
    /\ mainPc # "returned"
    /\ cancel' = TRUE
    /\ cancelBy' = "external"
    /\ UNCHANGED <<cfg, pc, wloc, counters, barrier, phase, paused, notified, time,
                   mainV, tui, ghost>>

\* Real time passes.  Only differences of instants are ever read (checkpoint.elapsed(),
\* the armed timer), so time that passes while the clock is paused and no timer is
\* armed shifts every later instant alike and is not counted.
TimeObserved == clock.status = "Running" \/ mainPc = "select"

Tick ==
    /\ now < MaxTime
    /\ TimeObserved
    /\ now' = now + 1
    /\ UNCHANGED <<cfg, pc, wloc, counters, barrier, phase, ctl, clock, limiter, mainV,
                   tui, ghost>>

Env == TuiKey \/ TuiClock \/ TuiFlag \/ TuiNotify \/ ExternalCancel \/ Tick

RunnerNext == (\E w \in AllIds : Worker(w)) \/ Main

Next == RunnerNext \/ Env

Spec == Init /\ [][Next]_vars

\* ------------------------------------------------------------------ fair runs
\* The executor keeps polling every task that can make progress: the task in
\* run() and every worker.  The user, the deadline's wall clock and the TUI are
\* under no obligation.
RunsLive ==
    {r \in AllRuns :
        \/ r.collector = "Tui" /\ r.opts.concurrency = 1 /\ r.opts.iterations = {}
             /\ r.opts.duration # {0} /\ r.opts.warmups > 0 /\ r.opts.rate # {}
        \/ r.collector = "Silent" /\ r.opts.concurrency > 1 /\ r.opts.iterations = {}
             /\ r.opts.duration = {} /\ r.opts.rate = {} /\ r.opts.warmups > 0}

InitLive == InitRun(RunsLive) /\ auto_quit = TRUE /\ cmpIn = NoComparison /\ cli = NoCli /\ LibIdle

Fairness == WF_vars(Main) /\ \A w \in AllIds : WF_vars(Worker(w))

SpecLive == InitLive /\ [][Next]_vars /\ Fairness

\* The fair runs, and a rate-limited run with one warm-up iteration more than the
\* first permit pays for.
RateLimitedWarmup ==
    [opts |-> [concurrency |-> 1, iterations |-> {1}, duration |-> {},
               warmups |-> MaxWarmups + 1, rate |-> {1}],
     collector |-> "Silent"]

InitWarmup ==
    InitRun(RunsLive \cup {RateLimitedWarmup})
      /\ auto_quit = TRUE /\ cmpIn = NoComparison /\ cli = NoCli /\ LibIdle

WarmupSpec == InitWarmup /\ [][Next]_vars /\ Fairness

\* ------------------------------------------------------------------ the clock on its own
\* Holders of clones of one Clock call resume(), pause(), elapsed() and sleep(d) in
\* any order while real time passes; each call runs under the clock's mutex.
runnerVars ==
    <<opts, collector, sys, pc, wloc, counters, barrier, phase, ctl, limiter, mainPc,
      mainResult, finished, joined, tui, ghost>>

statsVars == <<stats, status_dist, error_dist, colPc>>

Counted(n) == IF n < MaxRedundant THEN n + 1 ELSE n

ClkResume ==
    /\ clock' = ClockResume(clock, now)
    /\ redundant' = IF clock.status = "Running" THEN Counted(redundant) ELSE redundant
    /\ UNCHANGED <<runnerVars, statsVars, now, ran, lastRead, sleeper, sleep>>

ClkPause ==
    /\ clock' = ClockPause(clock, now)
    /\ redundant' = IF clock.status = "Paused" THEN Counted(redundant) ELSE redundant
    /\ UNCHANGED <<runnerVars, statsVars, now, ran, lastRead, sleeper, sleep>>

ClkRead ==
    /\ lastRead' = ClockElapsed
    /\ UNCHANGED <<runnerVars, statsVars, clock, now, ran, redundant, sleeper, sleep>>

ClkTick ==
    /\ now < MaxClockTime
    /\ now' = now + 1
    /\ ran' = IF clock.status = "Running" THEN ran + 1 ELSE ran
    /\ UNCHANGED <<runnerVars, statsVars, clock, lastRead, redundant, sleeper, sleep>>

ClkSleepCall ==
    /\ sleeper.pc = "idle"
    /\ \E d \in 0 .. MaxSleep :
          /\ sleeper' = [pc |-> "sleeping", duration |-> d, called_at |-> ClockElapsed]
          /\ sleep' = SleepArm(d)
    /\ UNCHANGED <<runnerVars, statsVars, clock, now, ran, lastRead, redundant>>

ClkSleepWake ==
    /\ sleeper.pc = "sleeping"
    /\ now >= sleep.timer
    /\ IF SleepDue
       THEN sleeper' = [sleeper EXCEPT !.pc = "returned"] /\ UNCHANGED sleep
       ELSE sleep' = SleepRearm /\ UNCHANGED sleeper
    /\ UNCHANGED <<runnerVars, statsVars, clock, now, ran, lastRead, redundant>>

ClockNext == ClkResume \/ ClkPause \/ ClkRead \/ ClkTick \/ ClkSleepCall \/ ClkSleepWake

DefaultRun ==
    [opts |-> [concurrency |-> 1, iterations |-> {}, duration |-> {}, warmups |-> 0,
               rate |-> {}],
     collector |-> "Silent"]

ClockInit == InitRun({DefaultRun}) /\ auto_quit = TRUE /\ cmpIn = NoComparison /\ cli = NoCli /\ LibIdle

\* the runtime keeps polling the sleeping task once its timer has expired
ClockSpec == ClockInit /\ [][ClockNext]_vars /\ WF_vars(ClkSleepWake)

\* ------------------------------------------------------------------ the collector on its own
\* The collector's loop over the result channel: what it does with each result.
Statuses == {"success_200", "server_error_500"}

Reports ==
    [status : Statuses, items : 0 .. MaxItems, bytes : 0 .. MaxBytes,
     duration : 0 .. MaxLatency]

ErrorTexts == {"timeout"}

RECURSIVE SumOf(_, _)
SumOf(f, S) == IF S = {} THEN 0 ELSE LET x == CHOOSE y \in S : TRUE IN f[x] + SumOf(f, S \ {x})

Processed == SumOf(status_dist, DOMAIN status_dist) + SumOf(error_dist, DOMAIN error_dist)

\* Some(Ok(report)): status_dist += 1; hist.record(report.duration)?; stats.record(&report)
ColRecvOk ==
    /\ colPc = "recv"
    /\ Processed < MaxResults
    /\ \E r \in Reports :
          /\ status_dist' = Bump(status_dist, r.status)
          /\ IF HistRecordOk(r.duration)
             THEN stats' = IterStatsRecord(stats, r) /\ UNCHANGED colPc
             ELSE colPc' = "failed" /\ UNCHANGED stats
    /\ UNCHANGED <<runnerVars, time, sleep, ran, lastRead, redundant, sleeper, error_dist>>

\* Some(Err(e)): error_dist += 1
ColRecvErr ==
    /\ colPc = "recv"
    /\ Processed < MaxResults
    /\ \E e \in ErrorTexts : error_dist' = Bump(error_dist, e)
    /\ UNCHANGED <<runnerVars, time, sleep, ran, lastRead, redundant, sleeper, stats,
                   status_dist, colPc>>

StatsNext == ColRecvOk \/ ColRecvErr

StatsSpec == ClockInit /\ [][StatsNext]_vars

\* ------------------------------------------------------------------ runner and collector
\* cli::run spawns collector.run() and awaits runner.run(): the collector task
\* drains the result channel while the workers fill it.
SysReports ==
    {r \in Reports : r.status = "success_200" /\ r.items = 1 /\ r.bytes = 1
                       /\ r.duration >= HistMax}

\* every UnboundedSender is gone: the Runner consumed by run() and the clone each
\* worker task holds
SendersGone ==
    /\ mainPc = "returned"
    /\ \A w \in Workers : pc[w] \in {"done", "failed", "aborted"}

\* res_rx.recv() returns None: the channel is closed and empty
ChannelClosed == SendersGone /\ chan = 0

\* BenchReport { concurrency, hist, stats, status_dist, error_dist, elapsed }
BenchReportNow ==
    [elapsed |-> ClockElapsed,
     iters |-> stats.overall.iters,
     errors |-> SumOf(error_dist, DOMAIN error_dist)]

\* the collector task is over: the collector is dropped and its receivers with it
CollectorEnds(how) ==
    /\ colPc' = how
    /\ res_rx' = "dropped"
    /\ phase_rx' = "dropped"

\* r = self.res_rx.recv() => match r { Some(Ok(report)) => .., Some(Err(e)) => .. }
RecvArms ==
    /\ chan > 0
    /\ chan' = chan - 1
    /\ \/ \E r \in SysReports :
             /\ status_dist' = Bump(status_dist, r.status)
             /\ UNCHANGED error_dist
             /\ IF HistRecordOk(r.duration)
                THEN /\ stats' = IterStatsRecord(stats, r)
                     /\ UNCHANGED <<colPc, res_rx, phase_rx, tui>>
                ELSE /\ CollectorEnds("failed")
                     /\ tui' = [tui EXCEPT !.pc = "ended"]
                     /\ UNCHANGED stats
       \/ \E e \in ErrorTexts :
             /\ error_dist' = Bump(error_dist, e)
             /\ UNCHANGED <<stats, status_dist, colPc, res_rx, phase_rx, tui>>

colFrame ==
    <<opts, collector, auto_quit, cmpVars, cli, lib, pc, wloc, counters, barrier, phase, paused, notified,
      now, limiter, mainV, ghost, ran, lastRead, redundant, sleeper>>

\* SilentCollector::run, the recv arm with a result
SilentRecv ==
    /\ collector = "Silent"
    /\ colPc = "recv"
    /\ RecvArms
    /\ UNCHANGED <<colFrame, clock, cancel, cancelBy, report>>

\* None => break; let elapsed = self.bench_opts.clock.elapsed(); Ok(BenchReport {..})
SilentClosed ==
    /\ collector = "Silent"
    /\ colPc = "recv"
    /\ ChannelClosed
    /\ report' = {BenchReportNow}
    /\ CollectorEnds("returned")
    /\ UNCHANGED <<colFrame, clock, cancel, cancelBy, chan, tui, stats, status_dist,
                   error_dist>>

\* _ = tokio::signal::ctrl_c() => self.cancel.cancel()
SilentCtrlC ==
    /\ collector = "Silent"
    /\ colPc = "recv"
    /\ ExternalCancel

\* TuiCollector::collect, the inner select loop: the recv arm with a result
TuiRecv ==
    /\ collector = "Tui"
    /\ colPc = "recv"
    /\ tui.pc = "idle"
    /\ tui.run_state # "Finished"
    /\ RecvArms
    /\ UNCHANGED <<colFrame, clock, cancel, cancelBy, report>>

\* None => { clock.pause(); self.state.run_state = RunState::Finished; break }
TuiClosed ==
    /\ collector = "Tui"
    /\ colPc = "recv"
    /\ tui.pc = "idle"
    /\ tui.run_state # "Finished"
    /\ ChannelClosed
    /\ clock' = ClockPause(clock, now)
    /\ tui' = [tui EXCEPT !.run_state = "Finished"]
    /\ UNCHANGED <<colFrame, cancel, cancelBy, report, chan, res_rx, phase_rx, statsVars>>

\* collect returned Ok(()): let elapsed = self.bench_opts.clock.elapsed(); Ok(BenchReport {..})
TuiReturns ==
    /\ report' = {BenchReportNow}
    /\ CollectorEnds("returned")
    /\ tui' = [tui EXCEPT !.pc = "ended"]

\* (Char('q'), _) | (Char('c'), CONTROL) => { self.cancel.cancel(); return Ok(true) }
TuiQuit ==
    /\ collector = "Tui"
    /\ colPc = "recv"
    /\ tui.pc = "idle"
    /\ cancel' = TRUE
    /\ cancelBy' = IF cancel THEN cancelBy ELSE "external"
    /\ TuiReturns
    /\ UNCHANGED <<colFrame, clock, chan, stats, status_dist, error_dist>>

\* if self.state.run_state == RunState::Finished { if self.auto_quit { return Ok(()) } .. }
TuiAutoQuit ==
    /\ collector = "Tui"
    /\ colPc = "recv"
    /\ tui.pc = "idle"
    /\ tui.run_state = "Finished"
    /\ auto_quit
    /\ TuiReturns
    /\ UNCHANGED <<colFrame, clock, cancel, cancelBy, chan, stats, status_dist,
                   error_dist>>

\* Terminal::new()?, crossterm::event::poll(..)?, terminal.draw(..)?: an I/O error ends
\* the collector with Err
TuiIoErr ==
    /\ collector = "Tui"
    /\ colPc = "recv"
    /\ tui.pc = "idle"
    /\ CollectorEnds("failed")
    /\ tui' = [tui EXCEPT !.pc = "ended"]
    /\ UNCHANGED <<colFrame, clock, cancel, cancelBy, report, chan, stats, status_dist,
                   error_dist>>

CollectorNext ==
    \/ SilentRecv
    \/ SilentClosed
    \/ SilentCtrlC
    \/ TuiRecv
    \/ TuiClosed
    \/ TuiQuit
    \/ TuiAutoQuit
    \/ TuiIoErr

SysNext == RunnerNext \/ CollectorNext \/ TuiKey \/ TuiClock \/ TuiFlag \/ TuiNotify \/ Tick

\* The runs explored with a collector attached: every run has an iteration budget.
RunsSys ==
    {r \in AllRuns :
        /\ r.opts.iterations # {}
        /\ \/ /\ r.collector = "Silent"
              /\ r.opts.concurrency = 2
              /\ r.opts.iterations = {1}
              /\ r.opts.duration = {}
              /\ r.opts.warmups = 1
              /\ r.opts.rate = {}
           \/ /\ r.collector = "Silent"
              /\ r.opts.concurrency = 1
              /\ r.opts.iterations = {1}
              /\ r.opts.duration = {1}
           \/ /\ r.collector = "Tui"
              /\ r.opts.concurrency = 1
              /\ r.opts.iterations \in {{1}, {2}}
              /\ r.opts.duration = {}
              /\ r.opts.rate = {}}

\* auto_quit is !cli.quit_manually: either value of the flag
SysInit ==
    /\ InitRun(RunsSys)
    /\ auto_quit \in BOOLEAN
    /\ cmpIn = NoComparison
    /\ cli = NoCli /\ LibIdle

SysSpec == SysInit /\ [][SysNext]_vars

\* ------------------------------------------------------------------ comparator
\* baseline::compare's arithmetic.  An f64 is an exact rational here: a metric
\* value is an integer, a success ratio is a value over SuccessScale, and a ratio
\* is a pair <<numerator, denominator>>.
Abs(x) == IF x < 0 THEN 0 - x ELSE x

SuccessScale == MaxValue

Thresholds == {t * ThresholdStep : t \in 0 .. MaxThresholdSteps}

\* let percent_change = (r - 1.0).abs() * 100.0; percent_change <= noise_threshold
WithinNoiseStrict(r, noise_threshold) == Abs(r[1] - r[2]) * 100 < noise_threshold * r[2]

WithinNoise(r, noise_threshold) == Abs(r[1] - r[2]) * 100 <= noise_threshold * r[2]

\* let d = (current - baseline) / baseline * 100.0: its numerator over baseline
DeltaPercentMagnitude(current, baseline) == Abs(current - baseline) * 100

DeltaPercentNum(current, baseline) == (current - baseline) * 100

\* let is_improved = if higher_is_better { r > 1.0 } else { r < 1.0 }
IsImproved(r, higher_is_better) == IF higher_is_better THEN r[1] > r[2] ELSE r[1] < r[2]

\* calculate_delta
CalculateDelta(current, baseline, noise_threshold, higher_is_better) ==
    IF baseline = 0 /\ current = 0
    THEN [current |-> current, baseline |-> baseline,
          ratio |-> {<<1, 1>>},
          delta |-> {[kind |-> "Percent", num |-> 0, den |-> 1]},
          status |-> "Unchanged"]
    ELSE LET ratio == IF baseline = 0 THEN {} ELSE {<<current, baseline>>}
             delta == IF baseline = 0
                      THEN {}
                      ELSE {[kind |-> "Percent", num |-> DeltaPercentNum(current, baseline),
                             den |-> baseline]}
             status == IF ratio # {}
                       THEN IF WithinNoise(Unwrap(ratio), noise_threshold)
                            THEN "Unchanged"
                            ELSE IF IsImproved(Unwrap(ratio), higher_is_better)
                                 THEN "Improved"
                                 ELSE "Regressed"
                       ELSE IF higher_is_better THEN "Improved" ELSE "Regressed"
         IN  [current |-> current, baseline |-> baseline, ratio |-> ratio, delta |-> delta,
              status |-> status]

\* calculate_throughput_delta, calculate_latency_delta
CalculateThroughputDelta(current, baseline, noise_threshold) ==
    CalculateDelta(current, baseline, noise_threshold, TRUE)

CalculateLatencyDelta(current, baseline, noise_threshold) ==
    CalculateDelta(current, baseline, noise_threshold, FALSE)

\* calculate_success_ratio_delta: percentage points, (current - baseline) * 100.0
SuccessRatioRelative(current, baseline, noise_threshold) ==
    CalculateDelta(current, baseline, noise_threshold, TRUE)

CalculateSuccessRatioDelta(current, baseline, noise_threshold) ==
    LET ratio == IF baseline = 0 /\ current = 0
                 THEN {<<1, 1>>}
                 ELSE IF baseline = 0 THEN {} ELSE {<<current, baseline>>}
        delta_points == (current - baseline) * 100
        status == IF Abs(delta_points) <= noise_threshold * SuccessScale
                  THEN "Unchanged"
                  ELSE IF delta_points > 0 THEN "Improved" ELSE "Regressed"
    IN  [current |-> current, baseline |-> baseline, ratio |-> ratio,
         delta |-> {[kind |-> "Points", num |-> delta_points, den |-> SuccessScale]},
         status |-> status]

\* RegressionMetric, DeltaStatus
Metrics ==
    {"ItersRate", "ItemsRate", "BytesRate", "LatencyMean", "LatencyMedian", "LatencyP90",
     "LatencyP99", "LatencyMax", "SuccessRatio"}

DeltaStatuses == {"Improved", "Regressed", "Unchanged"}

\* calculate_verdict, the match on the metric: Option<DeltaStatus>.  A Delta is
\* its status here, the only field the verdict reads.
MetricStatus(throughput, latency, success_ratio, metric) ==
    CASE metric = "ItersRate" -> {throughput.iters_rate}
      [] metric = "ItemsRate" -> throughput.items_rate
      [] metric = "BytesRate" -> throughput.bytes_rate
      [] metric = "LatencyMean" -> {l.mean : l \in latency}
      [] metric = "LatencyMedian" -> {l.median : l \in latency}
      [] metric = "LatencyP90" -> UNION {l.p90 : l \in latency}
      [] metric = "LatencyP99" -> UNION {l.p99 : l \in latency}
      [] metric = "LatencyMax" -> {l.max : l \in latency}
      [] metric = "SuccessRatio" -> {success_ratio}

\* for metric in metrics { match status { Some(s) => statuses.push(s), None => skipped.push(*metric) } }
RECURSIVE VerdictLoop(_, _, _, _, _, _)
VerdictLoop(throughput, latency, success_ratio, metrics, statuses, skipped) ==
    IF metrics = << >>
    THEN [statuses |-> statuses, skipped |-> skipped]
    ELSE LET status == MetricStatus(throughput, latency, success_ratio, Head(metrics)) IN
         IF status # {}
         THEN VerdictLoop(throughput, latency, success_ratio, Tail(metrics),
                          Append(statuses, Unwrap(status)), skipped)
         ELSE VerdictLoop(throughput, latency, success_ratio, Tail(metrics),
                          statuses, Append(skipped, Head(metrics)))

Contains(xs, x) == \E i \in DOMAIN xs : xs[i] = x

\* match (has_improved, has_regressed)
VerdictOfRegressedFirst(has_improved, has_regressed) ==
    IF has_regressed THEN "Regressed" ELSE IF has_improved THEN "Improved" ELSE "Unchanged"

VerdictOf(has_improved, has_regressed) ==
    IF has_improved /\ has_regressed
    THEN "Mixed"
    ELSE IF has_improved THEN "Improved" ELSE IF has_regressed THEN "Regressed" ELSE "Unchanged"

CalculateVerdict(throughput, latency, success_ratio, metrics) ==
    LET acc == VerdictLoop(throughput, latency, success_ratio, metrics, << >>, << >>) IN
    [verdict |-> VerdictOf(Contains(acc.statuses, "Improved"),
                           Contains(acc.statuses, "Regressed")),
     skipped |-> acc.skipped]

\* The comparisons explored.  A delta is computed for every pair of values and
\* every threshold, both ways round.  A verdict is computed for every selection
\* of up to MaxSelected metrics over deltas in which the latency percentiles are
\* absent or share the status of the maximum.
DeltaFns == {"throughput", "latency", "success_ratio"}

DeltaJobs ==
    [fn : DeltaFns, current : 0 .. MaxValue, baseline : 0 .. MaxValue,
     noise_threshold : Thresholds]

OptionOf(S) == {{}} \cup {{x} : x \in S}

ThroughputStatuses ==
    [iters_rate : DeltaStatuses, items_rate : OptionOf(DeltaStatuses),
     bytes_rate : OptionOf({"Unchanged"})]

LatencyStatuses ==
    OptionOf({l \in [mean : DeltaStatuses, median : DeltaStatuses, max : DeltaStatuses,
                     p90 : OptionOf(DeltaStatuses), p99 : OptionOf(DeltaStatuses)] :
                /\ l.median = l.mean
                /\ l.p90 = l.p99
                /\ l.p90 \subseteq {l.max}})

MetricSeqs == UNION {[1 .. n -> Metrics] : n \in 0 .. MaxSelected}

VerdictJobs ==
    [fn : {"verdict"}, throughput : ThroughputStatuses, latency : LatencyStatuses,
     success_ratio : DeltaStatuses, metrics : MetricSeqs]

DeltaOf(fn, current, baseline, noise_threshold) ==
    CASE fn = "throughput" -> CalculateThroughputDelta(current, baseline, noise_threshold)
      [] fn = "latency" -> CalculateLatencyDelta(current, baseline, noise_threshold)
      [] fn = "success_ratio" -> CalculateSuccessRatioDelta(current, baseline, noise_threshold)

cmpFrame ==
    <<opts, collector, unit, chan, res_rx, phase_rx, report, auto_quit, cmpIn, cli, lib, pc,
      wloc,
      counters, barrier, phase, ctl, time, mainV, tui, ghost>>

\* a delta of (current, baseline) and of the swapped pair
CmpDelta ==
    /\ cmpIn.fn \in DeltaFns
    /\ cmpOut = {}
    /\ cmpOut' =
          {[fwd |-> DeltaOf(cmpIn.fn, cmpIn.current, cmpIn.baseline, cmpIn.noise_threshold),
            rev |-> DeltaOf(cmpIn.fn, cmpIn.baseline, cmpIn.current, cmpIn.noise_threshold)]}
    /\ UNCHANGED cmpFrame

\* let (verdict, skipped) = calculate_verdict(&throughput, latency.as_ref(), &success_ratio, metrics)
CmpVerdict ==
    /\ cmpIn.fn = "verdict"
    /\ cmpOut = {}
    /\ cmpOut' =
          {CalculateVerdict(cmpIn.throughput, cmpIn.latency, cmpIn.success_ratio,
                            cmpIn.metrics)}
    /\ UNCHANGED cmpFrame

CmpNext == CmpDelta \/ CmpVerdict

CmpInit ==
    /\ InitRun({DefaultRun})
    /\ auto_quit = TRUE
    /\ cmpIn \in DeltaJobs \cup VerdictJobs
    /\ cli = NoCli /\ LibIdle

CmpSpec == CmpInit /\ [][CmpNext]_vars

\* ------------------------------------------------------------------ orchestrator
\* cli::run around the runner and the collector: load and validate the baseline,
\* spawn the collector, run the runner, await the report, compare, print, save,
\* and fail on a regression.  The runner and the collector are the actions of
\* SysNext; they take steps only between the spawn and the end of `report.await`.

\* Verdict
Verdicts == {"Improved", "Regressed", "Unchanged", "Mixed"}

\* BenchConfig of a stored baseline: any concurrency and rate limit; its duration,
\* iterations and warmup are those of the shortest silent run, or all three differ
BenchConfigs ==
    {b \in [concurrency   : 1 .. MaxWorkers,
            rate_limit    : {{}, {1}},
            duration_secs : {{}, {1}},
            iterations    : {{1}, {2}},
            warmup        : {0, 1}] :
        \/ b.duration_secs = {1} /\ b.iterations = {1} /\ b.warmup = 0
        \/ b.duration_secs = {} /\ b.iterations = {2} /\ b.warmup = 1}

\* (Some(name), _) | (None, Some(path)) => Some(..); (None, None) => None
BaselineRequested(c) == c.baseline_name \/ c.baseline_file

\* baseline::load / baseline::load_file: File::open and serde_json::from_reader
\* succeed on a stored baseline and fail on a missing or malformed file
LoadFile(disk) == IF disk = {} THEN [ok |-> FALSE, baseline |-> {}]
                  ELSE [ok |-> TRUE, baseline |-> disk]

\* Baseline::validate
ValidateConcurrencyOnly(config, o) == o.concurrency = config.concurrency

Validate(config, o) ==
    IF o.concurrency # config.concurrency
    THEN FALSE
    ELSE IF o.rate # config.rate_limit THEN FALSE ELSE TRUE

\* matches!(cmp.verdict, Verdict::Regressed | Verdict::Mixed)
IsRegressedOnly(verdict) == verdict = "Regressed"

IsRegression(verdict) == verdict \in {"Regressed", "Mixed"}

CliReturn(result) == cli' = [cli EXCEPT !.pc = "returned", !.result = result]

cliFrame ==
    <<opts, collector, unit, chan, res_rx, phase_rx, report, auto_quit, cmpVars, lib, pc, wloc,
      counters, barrier, phase, ctl, time, mainV, tui, ghost>>

\* let baseline = match (&cli.baseline, &cli.baseline_file) { .. load(..)? .. }
CliLoad ==
    /\ cli.pc = "load"
    /\ IF BaselineRequested(cli)
       THEN LET loaded == LoadFile(cli.disk)
            IN  IF loaded.ok
                THEN cli' = [cli EXCEPT !.pc = "validate", !.baseline = loaded.baseline]
                ELSE CliReturn("LoadError")
       ELSE cli' = [cli EXCEPT !.pc = "validate"]
    /\ UNCHANGED cliFrame

\* baseline.as_ref().map(|b| b.validate(&cli)).transpose()?; then the channels, the
\* runner and the collector are built and the collector is spawned
CliValidate ==
    /\ cli.pc = "validate"
    /\ IF cli.baseline = {} \/ Validate(Unwrap(cli.baseline), opts)
       THEN cli' = [cli EXCEPT !.pc = "run"]
       ELSE CliReturn("ValidateError")
    /\ UNCHANGED cliFrame

\* the spawned collector task, and the runner's tasks inside runner.run()
CliSys ==
    /\ cli.pc \in {"run", "await"}
    /\ SysNext

\* runner.run().await?
CliRunReturned ==
    /\ cli.pc = "run"
    /\ mainPc = "returned"
    /\ IF mainResult = Ok
       THEN cli' = [cli EXCEPT !.pc = "await"]
       ELSE CliReturn("RunError")
    /\ UNCHANGED cliFrame

\* let report = report.await??
CliReportAwait ==
    /\ cli.pc = "await"
    /\ colPc \in {"returned", "failed"}
    /\ IF colPc = "returned"
       THEN cli' = [cli EXCEPT !.pc = "compare"]
       ELSE CliReturn("CollectError")
    /\ UNCHANGED cliFrame

\* let cmp = baseline.map(|b| baseline::compare(&report, &b, ..)): the numbers of a
\* stored report are free, so each verdict can come out
CliCompare ==
    /\ cli.pc = "compare"
    /\ IF cli.baseline = {}
       THEN cli' = [cli EXCEPT !.pc = "output"]
       ELSE \E verdict \in Verdicts : cli' = [cli EXCEPT !.pc = "output", !.cmp = {verdict}]
    /\ UNCHANGED cliFrame

\* File::create(path)? and Reporter::print(..)?
CliOutput ==
    /\ cli.pc = "output"
    /\ \E ok \in BOOLEAN :
          IF ok
          THEN cli' = [cli EXCEPT !.pc = "save", !.emitted = TRUE]
          ELSE CliReturn("IoError")
    /\ UNCHANGED cliFrame

\* if let Some(ref name) = cli.save_baseline { baseline::save(..)?; .. }
CliSave ==
    /\ cli.pc = "save"
    /\ IF cli.save_baseline
       THEN \E ok \in BOOLEAN :
               IF ok
               THEN cli' = [cli EXCEPT !.pc = "check", !.saved = TRUE]
               ELSE CliReturn("SaveError")
       ELSE cli' = [cli EXCEPT !.pc = "check"]
    /\ UNCHANGED cliFrame

\* if cli.fail_on_regression && let Some(ref cmp) = cmp && matches!(..) { return Err(..) }
\* Ok(())
CliRegressionCheck ==
    /\ cli.pc = "check"
    /\ IF cli.fail_on_regression /\ cli.cmp # {} /\ IsRegression(Unwrap(cli.cmp))
       THEN CliReturn("RegressionError")
       ELSE CliReturn("Ok")
    /\ UNCHANGED cliFrame

CliNext ==
    \/ CliLoad
    \/ CliValidate
    \/ CliSys
    \/ CliRunReturned
    \/ CliReportAwait
    \/ CliCompare
    \/ CliOutput
    \/ CliSave
    \/ CliRegressionCheck

\* The command lines explored.  A stored baseline that passes validation and the
\* two flags are carried through a whole run, so they are free on the shortest
\* silent runs only; the other runs take no baseline or one that is rejected.
CliArgs ==
    {c \in [baseline_name : BOOLEAN, baseline_file : BOOLEAN,
            disk : {{}} \cup {{b} : b \in BenchConfigs},
            save_baseline : BOOLEAN, fail_on_regression : BOOLEAN] :
        /\ ~(c.baseline_name /\ c.baseline_file)
        /\ ~BaselineRequested(c) => c.disk = {}}

CliRuns ==
    {x \in [run : RunsSys, args : CliArgs] :
        \/ /\ x.run.collector = "Silent"
           /\ x.run.opts.concurrency = 1
           /\ x.run.opts.warmups = 0
           /\ x.run.opts.rate = {}
        \/ /\ ~x.args.save_baseline
           /\ ~x.args.fail_on_regression
           /\ \/ ~BaselineRequested(x.args)
              \/ x.args.disk = {}
              \/ ~Validate(Unwrap(x.args.disk), x.run.opts)}

CliInit ==
    \E x \in CliRuns :
        /\ InitRun({x.run})
        /\ auto_quit \in (IF x.run.collector = "Tui" THEN BOOLEAN ELSE {TRUE})
        /\ cmpIn = NoComparison
        /\ cli = CliStart(x.args.baseline_name, x.args.baseline_file, x.args.disk,
                          x.args.save_baseline, x.args.fail_on_regression)
        /\ LibIdle

CliSpec == CliInit /\ [][CliNext]_vars

\* cli::run under a fair executor: run()'s task, every worker, the collector's
\* receive loop and cli::run itself keep being polled while they can make
\* progress; the user is under no obligation.  The runs are the shortest silent
\* ones, with an iteration budget of one or with no budget at all.
CliLiveRuns ==
    {r \in AllRuns :
        /\ r.collector = "Silent"
        /\ r.opts.concurrency = 1
        /\ r.opts.iterations \in {{}, {1}}
        /\ r.opts.duration = {}
        /\ r.opts.warmups = 0
        /\ r.opts.rate = {}}

CliLiveInit ==
    /\ InitRun(CliLiveRuns)
    /\ auto_quit = TRUE
    /\ cmpIn = NoComparison
    /\ cli = CliStart(FALSE, FALSE, {}, FALSE, FALSE)
    /\ LibIdle

CliRunning == cli.pc \in {"run", "await"}

CliFairness ==
    /\ WF_vars(CliLoad \/ CliValidate \/ CliRunReturned \/ CliReportAwait \/ CliCompare
                 \/ CliOutput \/ CliSave \/ CliRegressionCheck)
    /\ WF_vars(CliRunning /\ Main)
    /\ \A w \in AllIds : WF_vars(CliRunning /\ Worker(w))
    /\ WF_vars(CliRunning /\ (SilentRecv \/ SilentClosed))

CliLiveSpec == CliLiveInit /\ [][CliNext]_vars /\ CliFairness

\* ------------------------------------------------------------------ baseline storage
\* baseline::save on a file system.  A file has the bytes written to it (len, in
\* chunks; a complete baseline has MaxFileLen of them) and the part of them that
\* is on stable storage (durable); a directory entry that was renamed is on
\* stable storage only once the directory is written back.  The process can be
\* killed between any two steps, and the machine can lose power, after which each
\* file holds its durable bytes and the rename is either there or not.
MaxFileLen == 3

NewFile(version) == [version |-> version, len |-> 0, durable |-> 0]
CompleteFile(version) == [version |-> version, len |-> MaxFileLen, durable |-> MaxFileLen]

\* what a reader of the file sees
Content(entry) == {[version |-> f.version, len |-> f.len] : f \in entry}

SaveStart(dir, path, temp) ==
    [pc     |-> "create_dir",
     dir    |-> dir,
     path   |-> path,
     temp   |-> temp,
     prior  |-> path,
     stable |-> path,
     result |-> "none"]

SaveReturn(result) == save' = [save EXCEPT !.pc = "returned", !.result = result]

saveFrame ==
    <<opts, collector, unit, chan, res_rx, phase_rx, report, auto_quit, cmpVars, cli, pc, wloc,
      counters, barrier, phase, ctl, time, mainV, tui, ghost, recent>>

\* fs::create_dir_all(baseline_dir)?
SaveCreateDir ==
    /\ save.pc = "create_dir"
    /\ \E ok \in BOOLEAN :
          IF ok \/ save.dir
          THEN save' = [save EXCEPT !.pc = "create_temp", !.dir = TRUE]
          ELSE SaveReturn("CreateDir")
    /\ UNCHANGED saveFrame

\* File::create(&temp_path)?: creates the file or truncates the one that is there
SaveCreateTemp ==
    /\ save.pc = "create_temp"
    /\ \E ok \in BOOLEAN :
          IF ok
          THEN save' = [save EXCEPT !.pc = "serialize", !.temp = {NewFile("new")}]
          ELSE SaveReturn("CreateTemp")
    /\ UNCHANGED saveFrame

\* serde_json::to_writer_pretty(&mut writer, &baseline)?: the BufWriter passes on
\* the chunks that do not fit its buffer and keeps the rest
SaveSerialize ==
    /\ save.pc = "serialize"
    /\ \E ok \in BOOLEAN, spilled \in 0 .. (MaxFileLen - 1) :
          LET written == {[f EXCEPT !.len = spilled] : f \in save.temp}
          IN  IF ok
              THEN save' = [save EXCEPT !.pc = "flush", !.temp = written]
              ELSE save' = [save EXCEPT !.pc = "returned", !.result = "Serialize",
                                        !.temp = written]
    /\ UNCHANGED saveFrame

\* writer.flush()?
SaveFlush ==
    /\ save.pc = "flush"
    /\ \E ok \in BOOLEAN :
          IF ok
          THEN save' = [save EXCEPT !.pc = "sync",
                                    !.temp = {[f EXCEPT !.len = MaxFileLen] : f \in save.temp}]
          ELSE SaveReturn("Flush")
    /\ UNCHANGED saveFrame

\* writer.get_ref().sync_all()?
SyncAllSkipped(f) == f

SyncAll(f) == [f EXCEPT !.durable = f.len]

SaveSync ==
    /\ save.pc = "sync"
    /\ \E ok \in BOOLEAN :
          IF ok
          THEN save' = [save EXCEPT !.pc = "rename",
                                    !.temp = {SyncAll(f) : f \in save.temp}]
          ELSE SaveReturn("Sync")
    /\ UNCHANGED saveFrame

\* fs::rename(&temp_path, &path)?; Ok(())
SaveRename ==
    /\ save.pc = "rename"
    /\ \E ok \in BOOLEAN :
          IF ok
          THEN save' = [save EXCEPT !.pc = "returned", !.result = "Ok",
                                    !.path = save.temp, !.temp = {}]
          ELSE SaveReturn("Rename")
    /\ UNCHANGED saveFrame

\* the operating system writes a cached chunk of the temporary file back
SaveWriteback ==
    /\ save.pc \notin {"off", "crashed"}
    /\ \E f \in save.temp :
          /\ f.durable < f.len
          /\ save' = [save EXCEPT !.temp = {[f EXCEPT !.durable = f.durable + 1]}]
    /\ UNCHANGED saveFrame

\* the operating system writes the directory back
SaveDirWriteback ==
    /\ save.pc \notin {"off", "crashed"}
    /\ save.stable # save.path
    /\ save' = [save EXCEPT !.stable = save.path]
    /\ UNCHANGED saveFrame

\* the process is killed inside save
SaveKilled ==
    /\ save.pc \notin {"off", "crashed", "returned"}
    /\ save' = [save EXCEPT !.pc = "crashed"]
    /\ UNCHANGED saveFrame

\* power is lost: what was not on stable storage is gone
Durable(entry) == {[f EXCEPT !.len = f.durable] : f \in entry}

SavePowerLoss ==
    /\ save.pc \notin {"off", "crashed"}
    /\ \E entry \in {save.stable, save.path} :
          save' = [save EXCEPT !.pc = "crashed", !.path = Durable(entry),
                               !.stable = Durable(entry), !.temp = Durable(save.temp)]
    /\ UNCHANGED saveFrame

SaveNext ==
    \/ SaveCreateDir
    \/ SaveCreateTemp
    \/ SaveSerialize
    \/ SaveFlush
    \/ SaveSync
    \/ SaveRename
    \/ SaveWriteback
    \/ SaveDirWriteback
    \/ SaveKilled
    \/ SavePowerLoss

\* the directory before the call: missing; or there, with or without a complete
\* earlier baseline, and with or without a temporary file an earlier call left
SaveStarts ==
    {SaveStart(FALSE, {}, {})}
      \cup {SaveStart(TRUE, path, temp) :
              path \in {{}, {CompleteFile("prior")}},
              temp \in {{}} \cup {{[version |-> "stale", len |-> n, durable |-> d]} :
                                     n \in 0 .. MaxFileLen, d \in 0 .. MaxFileLen}}

SaveInit ==
    /\ InitRun({DefaultRun})
    /\ auto_quit = TRUE
    /\ cmpIn = NoComparison
    /\ cli = NoCli
    /\ save \in {x \in SaveStarts : \A f \in x.temp : f.durable <= f.len}
    /\ recent = NoWindow

SaveSpec == SaveInit /\ [][SaveNext]_vars

\* ------------------------------------------------------------------ recent stats window
\* stats/window.rs: a ring of cumulative Counter snapshots, newest first.
\* The constructor sizes the ring for 600 s of history; the model keeps the
\* formula and scales the 600 down.
HistorySecs == 2

MaxFps == 3

MaxRecorded == MaxFps * HistorySecs + 2

NanosPerSec == 1000000000

\* Duration { secs, nanos } with nanos < 1 s
Secs(n) == [secs |-> n, nanos |-> 0]

\* Duration + Duration
DurationAdd(a, b) ==
    IF a.nanos + b.nanos >= NanosPerSec
    THEN [secs |-> a.secs + b.secs + 1, nanos |-> a.nanos + b.nanos - NanosPerSec]
    ELSE [secs |-> a.secs + b.secs, nanos |-> a.nanos + b.nanos]

\* u32 * Duration
RECURSIVE DurationMul(_, _)
DurationMul(k, d) == IF k = 0 THEN Secs(0) ELSE DurationAdd(DurationMul(k - 1, d), d)

\* Duration::from_secs_f64(1.0 / fps): the quotient rounded to whole nanoseconds
IntervalOf(fps) ==
    IF fps = 1 THEN Secs(1)
    ELSE [secs |-> 0, nanos |-> (2 * NanosPerSec + fps) \div (2 * fps)]

\* u64 - u64 below zero: a panic in a debug build, a wrapped value in a release build
Underflow == -1

CheckedSub(x, y) == IF x >= y THEN x - y ELSE Underflow

\* &Counter - &Counter: sub_assign field by field
CounterSub(a, b) ==
    [iters |-> CheckedSub(a.iters, b.iters),
     items |-> CheckedSub(a.items, b.items),
     bytes |-> CheckedSub(a.bytes, b.bytes),
     latency_sum |-> CheckedSub(a.latency_sum, b.latency_sum)]

\* StatsWindow::rotate: drop the oldest bucket of a full ring, push at the front
RotateNoDrop(buckets, size, bucket) == <<bucket>> \o buckets

Rotate(buckets, size, bucket) ==
    <<bucket>> \o (IF Len(buckets) = size THEN SubSeq(buckets, 1, Len(buckets) - 1)
                   ELSE buckets)

\* StatsWindow::new: one default bucket
StatsWindowNew(size) == Rotate(<< >>, size, ZeroCounter)

\* fps.saturating_mul(600).saturating_add(1)
WindowSize(fps) == fps * HistorySecs + 1

NoStats == [secs |-> 0]

\* RecentStatsWindow::new: the window, then win.record(Counter::default())
RecentNew(fps) ==
    [pc |-> "on", fps |-> fps, interval |-> IntervalOf(fps), size |-> WindowSize(fps),
     buckets |-> Rotate(StatsWindowNew(WindowSize(fps)), WindowSize(fps), ZeroCounter),
     recorded |-> 0, out |-> NoStats]

\* frames_back.min(len.saturating_sub(1))
Clamped(win, secs) ==
    LET frames_back == win.fps * secs
        last == IF Len(win.buckets) = 0 THEN 0 ELSE Len(win.buckets) - 1
    IN  IF frames_back < last THEN frames_back ELSE last

\* RecentStatsWindow::stats_for_secs
StatsForSecs(win, secs) ==
    LET clamped == Clamped(win, secs)
        back == IF clamped < Len(win.buckets) THEN win.buckets[clamped + 1]
                ELSE win.buckets[Len(win.buckets)]
    IN  [secs |-> secs,
         delta |-> CounterSub(win.buckets[1], back),
         duration |-> DurationMul(clamped, win.interval)]

\* what one frame adds to the cumulative counter the collector records
FrameDeltas ==
    {ZeroCounter, [iters |-> 1, items |-> 1, bytes |-> 2, latency_sum |-> 1]}

CounterAdd(a, b) ==
    [iters |-> a.iters + b.iters, items |-> a.items + b.items,
     bytes |-> a.bytes + b.bytes, latency_sum |-> a.latency_sum + b.latency_sum]

SecsAsked == 1..HistorySecs

recentFrame ==
    <<opts, collector, unit, chan, res_rx, phase_rx, report, auto_quit, cmpVars, cli, pc, wloc,
      counters, barrier, phase, ctl, time, mainV, tui, ghost, save>>

\* RecentStatsWindow::record(total): self.window.rotate(total)
RecentRecord ==
    /\ recent.pc = "on"
    /\ recent.recorded < MaxRecorded
    /\ \E d \in FrameDeltas :
        recent' = [recent EXCEPT
            !.buckets = Rotate(@, recent.size, CounterAdd(recent.buckets[1], d)),
            !.recorded = @ + 1,
            !.out = NoStats]
    /\ UNCHANGED recentFrame

\* let (delta, duration) = win.stats_for_secs(secs)
RecentStats ==
    /\ recent.pc = "on"
    /\ \E secs \in SecsAsked : recent' = [recent EXCEPT !.out = StatsForSecs(recent, secs)]
    /\ UNCHANGED recentFrame

RecentNext == RecentRecord \/ RecentStats

RecentInit ==
    /\ InitRun({DefaultRun})
    /\ auto_quit = TRUE
    /\ cmpIn = NoComparison
    /\ cli = NoCli
    /\ save = NoSave
    /\ recent \in {RecentNew(fps) : fps \in 1..MaxFps}

RecentSpec == RecentInit /\ [][RecentNext]_vars

\* ------------------------------------------------------------------ claims
RunReturned == mainPc = "returned"
AllSetupOk == setupOk = Workers
AllDone == \A w \in Workers : pc[w] = "done"
CleanFinish == RunReturned /\ ~cancel /\ AllSetupOk
TotalSent == sent["warmup"] + sent["bench"]
TotalCalls == calls["warmup"] + calls["bench"]

\* C1: with an iteration budget N, no sequence number is passed to two bench calls
\* and none at or above N is passed at all; when a run that was never cancelled
\* returns, every value 0..N-1 was passed to exactly one bench call, bench was
\* called N times in the bench phase and N results were sent.
C1_SequenceComplete ==
    IsSome(opts.iterations) =>
        LET N == Unwrap(opts.iterations) IN
        /\ \A n \in 0 .. MaxSeq : seqCalls[n] <= 1 /\ (n >= N => seqCalls[n] = 0)
        /\ calls["bench"] <= N
        /\ CleanFinish =>
              /\ \A n \in 0 .. (N - 1) : seqCalls[n] = 1
              /\ calls["bench"] = N
              /\ TotalSent = N

C1_Witness ==
    /\ CleanFinish
    /\ opts.concurrency = 2
    /\ opts.iterations = {2}
    /\ opts.warmups = 1
    /\ seqCalls[0] = 1 /\ seqCalls[1] = 1
    /\ info[0].runner_seq >= 2 /\ info[1].runner_seq >= 2

\* C2: no warm-up result is ever sent on the result channel: every result sent
\* comes from a bench-phase call, whatever the number of warm-ups.
C2_WarmupExcluded ==
    /\ sent["warmup"] = 0
    /\ sent["bench"] <= calls["bench"]

C2_Witness ==
    /\ RunReturned
    /\ calls["warmup"] = 1
    /\ sent["bench"] = 2
    /\ opts.warmups = 1

\* C3: the warm-up budget is global: bench is never called more than `warmups`
\* times in the warm-up phase, and once the bench phase is published in a run that
\* is not cancelled it was called exactly `warmups` times, for any concurrency; a
\* run with budget N that returns uncancelled made warmups + N calls.
C3_WarmupBudgetGlobal ==
    /\ calls["warmup"] <= opts.warmups
    /\ (phase.kind = "Bench" /\ ~cancel) => calls["warmup"] = opts.warmups
    /\ (CleanFinish /\ IsSome(opts.iterations)) =>
           TotalCalls = opts.warmups + Unwrap(opts.iterations)

C3_Witness ==
    /\ CleanFinish
    /\ opts.concurrency = 2
    /\ opts.warmups = 1
    /\ opts.iterations = {2}
    /\ TotalCalls = 3

\* C4: when run() has returned and some worker's setup failed, it returned
\* Err(WorkerSetup) carrying the id of a worker whose setup failed.
C4_SetupErrorReturned ==
    (RunReturned /\ \E w \in Workers : TaskFailed(w)) =>
        /\ mainResult.kind = "WorkerSetup"
        /\ TaskFailed(mainResult.worker_id)

\* C5: after a setup failure, as long as run() has not returned, the task in run()
\* or some worker can still take a step (run() is not stuck).
C5_SetupFailureNotStuck ==
    ((\E w \in Workers : TaskFailed(w)) /\ ~RunReturned) => ENABLED RunnerNext

\* C6: once the token is cancelled and every setup has succeeded, eventually
\* every worker is through teardown and run() has returned.
C6_CancelTerminates == (cancel /\ AllSetupOk) ~> (RunReturned /\ AllDone)

C6_Witness ==
    /\ RunReturned
    /\ AllDone
    /\ cancelBy = "external"
    /\ paused
    /\ clock.status = "Paused"
    /\ IsSome(opts.rate)
    /\ opts.iterations = {}

\* C7: the step in which the deadline triggers cancellation is taken only when
\* the logical clock has reached the duration.
DeadlineFires == cancelBy # "deadline" /\ cancelBy' = "deadline"

C8_SetupBeforeBench == TotalCalls > 0 => AllSetupOk

C8_Witness ==
    /\ opts.concurrency = 2
    /\ opts.warmups = 0
    /\ calls["bench"] = 1
    /\ AllSetupOk

\* C9: whenever a bench-phase call has been made, no worker is inside the warm-up
\* loop: every warm-up iteration has finished or was cancelled, none can start.
WarmupLoopPcs ==
    {"fetch", "rate", "select", "pause_fast", "pause_sub", "pause_recheck",
     "pause_await", "bench", "warmup_publish"}

InWarmupLoop(w) == stage[w] = "warmup" /\ pc[w] \in WarmupLoopPcs

C9_WarmupBeforeBench ==
    calls["bench"] > 0 => \A w \in Workers : ~InWarmupLoop(w)

C9_Witness ==
    /\ opts.concurrency = 2
    /\ opts.warmups = 1
    /\ calls["warmup"] = 1
    /\ calls["bench"] = 1

\* C10: the clock, started paused, is paused with elapsed() = 0 in every state in
\* which BenchPhase::Bench has not been published.
C10_ClockZeroBeforeBench ==
    phase.kind # "Bench" => (clock.status = "Paused" /\ ClockElapsed = 0)

C10_Witness ==
    /\ phase.kind = "Warmup"
    /\ tui.keys = 2
    /\ tui.pc = "idle"
    /\ now > 0
    /\ ClockElapsed = 0

\* C11: a leader that finds the pause flag set has published Bench and leaves the
\* clock as it is; a leader resumes the clock only after reading the flag unset;
\* and a paused clock is started only by the leader's resume or by the TUI's
\* key handler, so after a skipped resume its reading moves only once the
\* external controller has resumed the clock.
LeaderSkips(w) == pc[w] = "leader_check" /\ paused /\ pc'[w] # "leader_check"

ClockStarts == clock.status = "Paused" /\ clock'.status = "Running"

C11_PausedLeaderKeepsClock ==
    [][/\ \A w \in AllIds :
             LeaderSkips(w) =>
                 phase.kind = "Bench" /\ clock' = clock /\ pc'[w] # "leader_resume"
       /\ \A w \in AllIds :
             (pc[w] # "leader_resume" /\ pc'[w] = "leader_resume") => ~paused
       /\ ClockStarts =>
             \/ tui.pc = "clock" /\ tui'.pc = "flag"
             \/ \E w \in AllIds : pc[w] = "leader_resume" /\ pc'[w] # "leader_resume"]_vars

C11_Witness ==
    /\ phase.kind = "Bench"
    /\ paused
    /\ tui.pc = "idle" /\ tui.run_state = "Paused"
    /\ stage[0] = "bench"
    /\ clock.status = "Paused"
    /\ ClockElapsed = 0
    /\ now > 0

\* C12: the values written to the phase channel never go back in the order
\* Pending, Setup, Warmup, Bench; the leader's publish of Bench happens only while
\* Bench has not been published; and when run() has returned with every setup Ok,
\* Bench has been published.
PhaseRank(p) ==
    CASE p.kind = "Pending" -> 0
      [] p.kind = "Setup" -> 1
      [] p.kind = "Warmup" -> 2
      [] p.kind = "Bench" -> 3

C12_PhaseOrder ==
    [][/\ PhaseRank(phase') >= PhaseRank(phase)
       /\ \A w \in AllIds :
             (pc[w] = "leader_publish" /\ pc'[w] = "leader_check") => phase.kind # "Bench"
       /\ (RunReturned' /\ AllSetupOk') => phase'.kind = "Bench"]_vars

C12_Witness ==
    /\ RunReturned
    /\ AllSetupOk
    /\ opts.concurrency = 2
    /\ opts.warmups = 0
    /\ cancelBy = "external"
    /\ phase.kind = "Bench"

\* C13: when run() has returned, every worker whose setup succeeded has been
\* through teardown (once: the task ends right after it).
C13_TeardownOnce == RunReturned => \A w \in setupOk : pc[w] = "done"

\* C14: when run() has returned and every setup succeeded, it returned Ok,
\* whichever teardowns returned an error.
C14_TeardownErrorIgnored == (RunReturned /\ AllSetupOk) => mainResult = Ok

C14_Witness ==
    /\ RunReturned
    /\ AllSetupOk
    /\ opts.concurrency = 2
    /\ teardownErr = Workers
    /\ mainResult = Ok

\* C15: bench is entered only in a state where the pause flag is unset, so a worker
\* that found the flag set calls bench only after resume() cleared it; an
\* iteration already inside bench when the flag is set can complete, and in the
\* bench phase its completion sends its result.
EntersBench(w) == pc[w] # "bench" /\ pc'[w] = "bench"

CompletesBench(w) == pc[w] = "bench" /\ stage[w] = "bench" /\ pc'[w] = "fetch"

C15_PauseGatesNext ==
    /\ [][\A w \in AllIds : EntersBench(w) => ~paused]_vars
    /\ [](\A w \in Workers :
             (pc[w] = "bench" /\ paused) => ENABLED (WarmupIterDone(w) \/ BenchIterDone(w)))
    /\ [][\A w \in AllIds :
             (CompletesBench(w) /\ paused) => sent'["bench"] = Sat(sent["bench"], SeqCap)]_vars

C15_Witness ==
    /\ paused
    /\ tui.pc = "idle" /\ tui.run_state = "Paused"
    /\ pc[0] = "bench"
    /\ stage[0] = "bench"

\* C16 (as amended): with the rate limit enabled, the number of bench calls
\* started never exceeds 1 + R * t, t the logical clock's elapsed time and R one
\* permit per ReplenishInterval; a paused clock freezes t and with it the bound.
C16_RateBound ==
    IsSome(opts.rate) =>
        TotalCalls * ReplenishInterval <= ReplenishInterval + ClockElapsed

C16_Witness ==
    /\ IsSome(opts.rate)
    /\ clock.status = "Paused"
    /\ ClockElapsed = 1
    /\ TotalCalls = 2
    /\ stage[0] = "bench"

\* C16 (as stated): the bound above, and once the initial permit is used no
\* permit is granted while the logical clock is paused.
PermitGranted == limiter' # limiter

C16_NoPermitWhilePaused ==
    /\ []C16_RateBound
    /\ [][(PermitGranted /\ limiter # {}) => clock.status = "Running"]_vars

\* C17: across every step the reading of elapsed() does not decrease; it does not
\* change while the clock is Paused; it equals the real time the clock has spent
\* Running; and a reading taken earlier never exceeds the current one.
C17_ClockDiscipline ==
    /\ [][ClockElapsed' >= ClockElapsed]_vars
    /\ [][clock.status = "Paused" => ClockElapsed' = ClockElapsed]_vars
    /\ [](ClockElapsed = ran)
    /\ [](lastRead <= ClockElapsed)

C17_Witness ==
    /\ clock.status = "Paused"
    /\ clock.elapsed = 2
    /\ lastRead = 1
    /\ ran = 2
    /\ now = 4

\* C18: pause() on a Paused clock and resume() on a Running clock return the
\* clock unchanged, and a second resume() gives the same reading as one at every
\* later instant, also after redundant calls have been made.
C18_PauseResumeIdempotent ==
    /\ clock.status = "Paused" => ClockPause(clock, now) = clock
    /\ clock.status = "Running" => ClockResume(clock, now) = clock
    /\ \A t \in now .. MaxClockTime :
          ClockElapsedOf(ClockResume(ClockResume(clock, now), t), t)
              = ClockElapsedOf(ClockResume(clock, now), t)
    /\ ClockElapsed = ran

C18_Witness ==
    /\ redundant = 2
    /\ clock.status = "Running"
    /\ clock.elapsed = 1
    /\ now > clock.checkpoint
    /\ ran = 2

\* C19: sleep(d) called at elapsed() = e returns only in a state where
\* elapsed() >= e + d, whatever pauses and resumes happen meanwhile; and once the
\* clock has reached e + d the sleep returns.
SleepReturns == sleeper.pc = "sleeping" /\ sleeper'.pc = "returned"

SleepTarget == sleeper.called_at + sleeper.duration

C19_SleepOnLogicalTime ==
    /\ [][SleepReturns => ClockElapsed >= SleepTarget]_vars
    /\ (sleeper.pc = "sleeping" /\ ClockElapsed >= SleepTarget) ~> (sleeper.pc = "returned")

C19_Witness ==
    /\ sleeper.pc = "returned"
    /\ sleeper.called_at = 1
    /\ sleeper.duration = 2
    /\ ClockElapsed = 3
    /\ now = 4

\* C20: while the collector is receiving, stats.overall is the field-wise sum of
\* the counters in stats.by_status, status_dist has the keys of by_status with
\* status_dist[s] = by_status[s].iters, and the values of status_dist add up to
\* stats.overall.iters.
FieldOf(m, field) == [s \in DOMAIN m |-> m[s][field]]

SumField(field) == SumOf(FieldOf(stats.by_status, field), DOMAIN stats.by_status)

C20_StatsConsistent ==
    colPc = "recv" =>
        /\ \A field \in {"iters", "items", "bytes", "latency_sum"} :
              stats.overall[field] = SumField(field)
        /\ DOMAIN status_dist = DOMAIN stats.by_status
        /\ \A s \in DOMAIN status_dist : status_dist[s] = stats.by_status[s].iters
        /\ SumOf(status_dist, DOMAIN status_dist) = stats.overall.iters

C20_Witness ==
    /\ colPc = "recv"
    /\ DOMAIN status_dist = Statuses
    /\ stats.overall.iters = 2
    /\ stats.overall.items = 1
    /\ stats.overall.latency_sum = 1
    /\ error_dist # << >>

\* C21: a BenchReport is returned only once the result channel is closed and
\* drained, and it counts every result the workers sent: iterations plus errors
\* equal the number of results sent.
Reported == Unwrap(report)

C21_ReportAfterDrain ==
    report # {} =>
        /\ ChannelClosed
        /\ Reported.iters + Reported.errors = sent["bench"]

\* C22: once a collector has returned its BenchReport the logical clock is
\* paused, so the report's elapsed equals clock.elapsed() at every later time.
C22_ReportClockPaused ==
    report # {} =>
        /\ clock.status = "Paused"
        /\ Reported.elapsed = ClockElapsed

\* C23: the TUI run state moves only between Running and Paused and from either
\* of them to Finished; Finished is never left, and no step the TUI takes in
\* Finished, a pause key press included, changes the run state, the pause flag
\* or the clock.
RunStateMoves ==
    {<<"Running", "Paused">>, <<"Paused", "Running">>,
     <<"Running", "Finished">>, <<"Paused", "Finished">>}

C23_FinishedTerminal ==
    /\ [][tui'.run_state # tui.run_state =>
             <<tui.run_state, tui'.run_state>> \in RunStateMoves]_vars
    /\ [][(tui.run_state = "Finished" /\ tui' # tui) =>
             (tui'.run_state = "Finished" /\ paused' = paused /\ clock' = clock)]_vars

\* the first key paused the run, the channel closed while it was paused, and the
\* second key was pressed in Finished
C23_Witness ==
    /\ tui.run_state = "Finished"
    /\ tui.pc = "idle"
    /\ tui.keys = 2
    /\ paused
    /\ clock.status = "Paused"

\* C24: with the result receiver and the phase receiver dropped, before or
\* during the run, a bench call whose result cannot be sent still returns to the
\* loop at once, and a run with budget N that was not cancelled and whose setups
\* succeeded makes all N bench calls and returns Ok.
SendFails(w) ==
    /\ pc[w] = "bench"
    /\ stage[w] = "bench"
    /\ res_rx = "dropped"
    /\ info'[w] # info[w]

C24_DroppedReceiverTolerated ==
    /\ []((CleanFinish /\ IsSome(opts.iterations)) =>
             (calls["bench"] = Unwrap(opts.iterations) /\ mainResult = Ok))
    /\ [](\A w \in Workers :
             (pc[w] = "bench" /\ stage[w] = "bench") => ENABLED BenchIterDone(w))
    /\ [][\A w \in AllIds : SendFails(w) => pc'[w] = "fetch"]_vars

C24_Witness ==
    /\ CleanFinish
    /\ mainResult = Ok
    /\ res_rx = "dropped"
    /\ phase_rx = "dropped"
    /\ opts.iterations = {2}
    /\ calls["bench"] = 2
    /\ sent["bench"] = 0
    /\ phase.kind = "Bench"

\* C25: over the statuses of the selected metrics whose delta is available the
\* verdict is Mixed iff Improved and Regressed both occur, Improved iff Improved
\* occurs without Regressed, Regressed iff Regressed occurs without Improved,
\* Unchanged otherwise; a metric is listed as skipped iff it is selected and its
\* delta is unavailable, and dropping the skipped metrics from the selection
\* leaves the verdict as it is.
Compared == Unwrap(cmpOut)

Selected == {cmpIn.metrics[i] : i \in DOMAIN cmpIn.metrics}

LatencyField(field) == IF cmpIn.latency = {} THEN {} ELSE {Unwrap(cmpIn.latency)[field]}

LatencyOption(field) == IF cmpIn.latency = {} THEN {} ELSE Unwrap(cmpIn.latency)[field]

AvailableStatus ==
    [ItersRate |-> {cmpIn.throughput.iters_rate},
     ItemsRate |-> cmpIn.throughput.items_rate,
     BytesRate |-> cmpIn.throughput.bytes_rate,
     LatencyMean |-> LatencyField("mean"),
     LatencyMedian |-> LatencyField("median"),
     LatencyP90 |-> LatencyOption("p90"),
     LatencyP99 |-> LatencyOption("p99"),
     LatencyMax |-> LatencyField("max"),
     SuccessRatio |-> {cmpIn.success_ratio}]

IsAvailable(m) == AvailableStatus[m] # {}

C25_VerdictRule ==
    (cmpOut # {} /\ cmpIn.fn = "verdict") =>
        LET statuses == UNION {AvailableStatus[m] : m \in Selected}
            improved == "Improved" \in statuses
            regressed == "Regressed" \in statuses
        IN  /\ Compared.verdict = "Mixed" <=> (improved /\ regressed)
            /\ Compared.verdict = "Improved" <=> (improved /\ ~regressed)
            /\ Compared.verdict = "Regressed" <=> (regressed /\ ~improved)
            /\ Compared.verdict = "Unchanged" <=> (~improved /\ ~regressed)
            /\ \A m \in Metrics :
                  Contains(Compared.skipped, m) <=> (m \in Selected /\ ~IsAvailable(m))
            /\ CalculateVerdict(cmpIn.throughput, cmpIn.latency, cmpIn.success_ratio,
                                SelectSeq(cmpIn.metrics, IsAvailable)).verdict
                  = Compared.verdict

C25_Witness ==
    /\ cmpOut # {}
    /\ cmpIn.fn = "verdict"
    /\ cmpIn.metrics = <<"LatencyP99", "LatencyMax">>
    /\ Compared.verdict = "Regressed"
    /\ Compared.skipped = <<"LatencyP99">>

\* C26: a throughput or latency delta follows the three-case rule: both values
\* zero give Unchanged with ratio 1; baseline zero and current non-zero give no
\* ratio and Improved for higher-is-better, Regressed for lower-is-better;
\* otherwise Unchanged iff |current/baseline - 1| * 100 <= noise_threshold, else
\* Improved iff the ratio lies on the better side of 1, else Regressed.
C26_DeltaRule ==
    (cmpOut # {} /\ cmpIn.fn \in {"throughput", "latency"}) =>
        LET c == cmpIn.current
            b == cmpIn.baseline
            higher == cmpIn.fn = "throughput"
            d == Compared.fwd
            significant == Abs(c - b) * 100 > cmpIn.noise_threshold * b
            better == (higher /\ c > b) \/ (~higher /\ c < b)
        IN  /\ (b = 0 /\ c = 0) => (d.status = "Unchanged" /\ d.ratio = {<<1, 1>>})
            /\ (b = 0 /\ c # 0) =>
                  /\ d.ratio = {}
                  /\ d.delta = {}
                  /\ d.status = IF higher THEN "Improved" ELSE "Regressed"
            /\ b # 0 =>
                  /\ d.ratio = {<<c, b>>}
                  /\ d.status = "Unchanged" <=> ~significant
                  /\ d.status = "Improved" <=> (significant /\ better)
                  /\ d.status = "Regressed" <=> (significant /\ ~better)

\* a change of exactly the threshold
C26_Witness ==
    /\ cmpOut # {}
    /\ cmpIn = [fn |-> "throughput", current |-> 3, baseline |-> 2, noise_threshold |-> 50]
    /\ Compared.fwd.status = "Unchanged"

Sign(x) == IF x > 0 THEN 1 ELSE IF x < 0 THEN 0 - 1 ELSE 0

DeltaSign(d) == Sign(Unwrap(d.delta).num)

Opposite(status) ==
    CASE status = "Improved" -> "Regressed"
      [] status = "Regressed" -> "Improved"
      [] status = "Unchanged" -> "Unchanged"

NonZeroDelta == cmpOut # {} /\ cmpIn.fn \in DeltaFns /\ cmpIn.current # 0 /\ cmpIn.baseline # 0

C28_DeltaSymmetry ==
    NonZeroDelta =>
        /\ Compared.fwd.status = "Improved" => Compared.rev.status = "Regressed"
        /\ Compared.fwd.status = "Regressed" => Compared.rev.status = "Improved"
        /\ DeltaSign(Compared.rev) = 0 - DeltaSign(Compared.fwd)

\* C28: for non-zero values the swapped comparison never has the same status as a
\* significant first one: it is the opposite status or Unchanged; it is the
\* opposite status whenever the significant first comparison has current below
\* baseline, and always for SuccessRatio; the sign of the delta is negated.
C28_DeltaAntisymmetry ==
    NonZeroDelta =>
        /\ Compared.fwd.status # "Unchanged" =>
              Compared.rev.status \in {Opposite(Compared.fwd.status), "Unchanged"}
        /\ (/\ Compared.fwd.status # "Unchanged"
            /\ (cmpIn.current < cmpIn.baseline \/ cmpIn.fn = "success_ratio")) =>
              Compared.rev.status = Opposite(Compared.fwd.status)
        /\ DeltaSign(Compared.rev) = 0 - DeltaSign(Compared.fwd)

\* throughput 2 against 1 is a change of 100 percent, 1 against 2 one of 50
C28_Witness ==
    /\ cmpOut # {}
    /\ cmpIn = [fn |-> "throughput", current |-> 2, baseline |-> 1, noise_threshold |-> 50]
    /\ Compared.fwd.status = "Improved"
    /\ Compared.rev.status = "Unchanged"

CliReturned == cli.pc = "returned"

\* fail_on_regression is set, a baseline was compared, the verdict is Regressed or Mixed
RegressionDue ==
    /\ cli.fail_on_regression
    /\ cli.cmp # {}
    /\ Unwrap(cli.cmp) \in {"Regressed", "Mixed"}

\* the report was printed and a requested save was done
OutputDone == cli.emitted /\ (cli.save_baseline => cli.saved)

\* C29 as stated: cli::run returns RegressionError if and only if fail_on_regression
\* is set, a baseline was compared and the verdict is Regressed or Mixed; the report
\* is then already emitted and a requested save already done; Improved and Unchanged
\* never produce it.
C29_RegressionIff ==
    CliReturned =>
        /\ cli.result = "RegressionError" <=> RegressionDue
        /\ cli.result = "RegressionError" => OutputDone
        /\ cli.cmp # {} /\ Unwrap(cli.cmp) \in {"Improved", "Unchanged"}
              => cli.result # "RegressionError"

\* C29 amended: cli::run returns RegressionError if and only if fail_on_regression is
\* set, a baseline was compared, the verdict is Regressed or Mixed, and printing the
\* report and the requested save did not fail; the report is then already emitted
\* and a requested save already done; Improved and Unchanged never produce it.
C29_RegressionAfterOutput ==
    CliReturned =>
        /\ cli.result = "RegressionError" <=> (RegressionDue /\ OutputDone)
        /\ RegressionDue /\ ~OutputDone => cli.result \in {"IoError", "SaveError"}
        /\ cli.cmp # {} /\ Unwrap(cli.cmp) \in {"Improved", "Unchanged"}
              => cli.result # "RegressionError"

C29_Witness ==
    /\ CliReturned
    /\ cli.result = "RegressionError"
    /\ cli.cmp = {"Mixed"}
    /\ cli.save_baseline
    /\ cli.saved
    /\ cli.emitted

\* no worker's setup or bench has been called
NoWorkerCalled ==
    /\ \A w \in AllIds : pc[w] \in {"absent", "setup"}
    /\ setupOk = {}
    /\ calls["warmup"] = 0
    /\ calls["bench"] = 0

ConfigMismatch(config) ==
    \/ config.concurrency # opts.concurrency
    \/ config.rate_limit # opts.rate

Rejected == cli.result \in {"LoadError", "ValidateError"}

\* C30: the baseline is loaded and validated before the runner starts: no setup or
\* bench is called before a requested baseline has been loaded and has passed
\* validation; a failed load, or a baseline whose concurrency or rate_limit differs
\* from the current options, makes cli::run return that error with no setup or bench
\* called; a baseline that differs in duration, iterations or warmup only is never
\* rejected.
C30_FailFast ==
    /\ ~NoWorkerCalled =>
          /\ cli.pc \notin {"load", "validate"}
          /\ ~Rejected
          /\ BaselineRequested(cli) =>
                cli.baseline # {} /\ ~ConfigMismatch(Unwrap(cli.baseline))
    /\ CliReturned /\ BaselineRequested(cli) =>
          /\ cli.disk = {} => cli.result = "LoadError" /\ NoWorkerCalled
          /\ cli.disk # {} /\ ConfigMismatch(Unwrap(cli.disk))
                => cli.result = "ValidateError" /\ NoWorkerCalled
          /\ cli.disk # {} /\ ~ConfigMismatch(Unwrap(cli.disk)) => ~Rejected

\* a rate_limit mismatch alone is rejected before any worker is called
C30_Witness ==
    /\ CliReturned
    /\ cli.result = "ValidateError"
    /\ cli.baseline # {}
    /\ Unwrap(cli.baseline).concurrency = opts.concurrency
    /\ Unwrap(cli.baseline).rate_limit # opts.rate
    /\ NoWorkerCalled

CompleteNew == Content({CompleteFile("new")})

\* C31: at every moment of a save, and after a kill or a power loss, <name>.json is
\* what it was before the call (absent, or its complete earlier content) or holds
\* the complete new baseline; after an error return it is what it was before, and
\* after Ok it holds the complete new baseline.
C31_AtomicSave ==
    save.pc # "off" =>
        /\ Content(save.path) \in {Content(save.prior), CompleteNew}
        /\ save.pc = "returned" /\ save.result # "Ok" => Content(save.path) = Content(save.prior)
        /\ save.pc = "returned" /\ save.result = "Ok" => Content(save.path) = CompleteNew

\* the save is interrupted with the temporary file half written: the earlier
\* baseline is untouched
C31_Witness ==
    /\ save.pc = "crashed"
    /\ save.prior # {}
    /\ Content(save.path) = Content(save.prior)
    /\ \E f \in save.temp : f.version = "new" /\ f.len \in 1 .. (MaxFileLen - 1)

InPauseWait(w) == pc[w] \in {"pause_sub", "pause_recheck", "pause_await"}

\* resume() has run to its end and no pause() has followed it
Resumed == ~paused /\ tui.pc # "notify"

\* C32: no lost wakeup: a worker inside wait_if_paused's loop, once resume() has
\* stored the flag and notified and while no pause() follows, leaves the wait.
C32_NoLostWakeup ==
    \A w \in AllIds : (InPauseWait(w) /\ Resumed) ~> (~InPauseWait(w) \/ paused)

\* resume() ran between the worker's second look at the flag and its await
C32_Witness ==
    \E w \in Workers :
        /\ pc[w] = "pause_await"
        /\ notified[w]
        /\ Resumed
        /\ ~cancel

\* no pause key is being handled and no leader is between the barrier and its
\* bench loop
KeyHandled == tui.pc = "idle"
LeaderDone == \A w \in AllIds : pc[w] \notin {"leader_publish", "leader_check", "leader_resume"}

\* C33: in a run under the TUI, whenever the phase is Bench and the pause flag is
\* set, the key handler and the leader having finished their steps, the logical
\* clock is Paused.
C33_PausedBenchClockPaused ==
    (/\ collector = "Tui"
     /\ phase.kind = "Bench"
     /\ paused
     /\ KeyHandled
     /\ LeaderDone) => clock.status = "Paused"

\* C34: in a run under the TUI, once the phase is Bench, the run state is Running,
\* the pause flag is clear, no key is being handled and the leader has finished
\* its transition, the logical clock is Running.
C34_RunningBenchClockRuns ==
    (/\ collector = "Tui"
     /\ phase.kind = "Bench"
     /\ tui.run_state = "Running"
     /\ ~paused
     /\ KeyHandled
     /\ LeaderDone) => clock.status = "Running"

SetupFailed == \E w \in AllIds : pc[w] = "failed"

\* C35: with a rate limit and at least two warm-up iterations, in a run whose
\* setups succeed and that is neither cancelled nor paused, all warm-up
\* iterations are executed and Bench is published.
C35_WarmupCompletes ==
    (opts.rate # {} /\ opts.warmups >= 2) =>
        <>(\/ phase.kind = "Bench" /\ calls["warmup"] = opts.warmups
           \/ cancel
           \/ paused
           \/ SetupFailed)

\* C36: once the collector has ended with an error in a run whose setups
\* succeeded, cli::run returns, and what it returns is the collector's error.
C36_CollectorErrorReturned ==
    (colPc = "failed" /\ ~SetupFailed) ~> (cli.pc = "returned" /\ cli.result = "CollectError")

\* the iteration of worker w that was running has completed
IterationCompleted(w) ==
    /\ pc[w] = "bench"
    /\ \/ stage[w] = "warmup" /\ pc'[w] = "warmup_publish"
       \/ stage[w] = "bench" /\ pc'[w] = "fetch"

\* worker w moves from the warm-up loop to the bench loop
EntersBenchPhase(w) == stage[w] = "warmup" /\ stage'[w] = "bench"

\* C37: within one phase the k-th call of a worker (k from 0) carries
\* worker_seq = k: every worker starts at 0, each completed iteration of the
\* worker adds exactly 1 (below the cap of the model), nothing else changes
\* the counter, and the move to the bench phase sets it back to 0, so the first
\* bench call carries 0 however many warm-ups ran
C37_WorkerSeqStep ==
    \A w \in AllIds :
        IF EntersBenchPhase(w) THEN info'[w].worker_seq = 0
        ELSE IF IterationCompleted(w)
             THEN \/ info'[w].worker_seq = info[w].worker_seq + 1
                  \/ info[w].worker_seq = CapOf(stage[w])
                     /\ info'[w].worker_seq = info[w].worker_seq
             ELSE info'[w].worker_seq = info[w].worker_seq

C37_WorkerSeq == [][C37_WorkerSeqStep]_vars

C37_Witness ==
    \E w \in AllIds :
        /\ stage[w] = "bench" /\ pc[w] = "bench"
        /\ info[w].worker_seq = 0
        /\ calls["warmup"] > 0
        /\ opts.concurrency = 1

\* the phase channel goes from one value of the kind to the next of the same kind
SameKind(kind) == phase.kind = kind /\ phase'.kind = kind

\* the value of the kind on the phase channel is replaced by one of another kind
LastOfKind(kind) == phase.kind = kind /\ phase'.kind # kind

\* C38: the completed count of successive Setup values and of successive Warmup
\* values on the phase channel never decreases, the last Setup value carries
\* completed = total, and the last Warmup value of a run that is not cancelled
\* carries completed = warmups
C38_ProgressStep ==
    /\ SameKind("Setup") \/ SameKind("Warmup") => phase'.completed >= phase.completed
    /\ LastOfKind("Setup") => phase.completed = phase.total
    /\ LastOfKind("Warmup") /\ ~cancel => phase.completed = opts.warmups

C38_ProgressMonotone == [][C38_ProgressStep]_vars

\* stats_for_secs has returned for the window as it is now
StatsReturned == recent.pc = "on" /\ recent.out # NoStats

\* the ring holds every frame of HistorySecs seconds
WindowFull == Len(recent.buckets) = recent.fps * HistorySecs + 1

CounterFields == {"iters", "items", "bytes", "latency_sum"}

\* front minus the snapshot `offset` frames back, no field below zero
DeltaAt(offset) ==
    [f \in CounterFields |-> recent.buckets[1][f] - recent.buckets[offset + 1][f]]

\* what C39 says of every call: the offset, the difference, the duration, the size
C39_Returned ==
    LET offset == IF recent.fps * recent.out.secs < Len(recent.buckets) - 1
                  THEN recent.fps * recent.out.secs ELSE Len(recent.buckets) - 1
    IN  /\ \A f \in CounterFields :
            /\ recent.out.delta[f] = DeltaAt(offset)[f]
            /\ recent.out.delta[f] >= 0
        /\ recent.out.duration = DurationMul(offset, recent.interval)

\* C39 as written: counters that never decrease give front minus the snapshot
\* at offset min(fps*s, len-1) with duration offset * interval and no underflow,
\* the ring never holds more than fps * HistorySecs + 1 snapshots, and on a full
\* ring stats_for_secs(HistorySecs) covers exactly HistorySecs seconds
C39_ExactSeconds ==
    /\ recent.pc = "on" => Len(recent.buckets) <= recent.fps * HistorySecs + 1
    /\ StatsReturned =>
        /\ C39_Returned
        /\ WindowFull /\ recent.out.secs = HistorySecs
            => recent.out.duration = Secs(HistorySecs)

\* C39: the same, where a full ring covers exactly fps * HistorySecs intervals,
\* which is HistorySecs seconds whenever fps intervals make up one second
C39_ExactFrames ==
    /\ recent.pc = "on" => Len(recent.buckets) <= recent.fps * HistorySecs + 1
    /\ StatsReturned =>
        /\ C39_Returned
        /\ WindowFull /\ recent.out.secs = HistorySecs
            => /\ recent.out.duration = DurationMul(recent.fps * HistorySecs, recent.interval)
               /\ recent.out.delta = DeltaAt(recent.fps * HistorySecs)
               /\ DurationMul(recent.fps, recent.interval) = Secs(1)
                    => recent.out.duration = Secs(HistorySecs)

C39_Witness ==
    /\ StatsReturned /\ WindowFull
    /\ recent.out.secs = HistorySecs
    /\ recent.recorded > recent.fps * HistorySecs
    /\ recent.out.delta.iters > 0
    /\ recent.out.duration = Secs(HistorySecs)

\* C40: while fewer than fps * s snapshots have been recorded, the duration
\* stats_for_secs(s) returns after n calls of record() is n * interval
C40_YoungSpan ==
    StatsReturned /\ recent.recorded < recent.fps * recent.out.secs
        => recent.out.duration = DurationMul(recent.recorded, recent.interval)

====
